---- MODULE Spec2Model ----
(***************************************************************************)
(* Household financial simulation: the income-trajectory models (jump and  *)
(* AR(1)), the process-wide NumPy generator they draw from, and the Monte  *)
(* Carlo balance simulators (full-horizon with interest and credit, and    *)
(* stop-on-negative), the two parameter estimators and the household       *)
(* statistics of the analysis.                                             *)
(*                                                                         *)
(* Number representation.  The program computes in floating point; the     *)
(* model computes in fixed point:                                          *)
(*   money                      whole currency units                       *)
(*   probabilities, uniform draws, jump sizes, annual interest rate        *)
(*                              percent (0.273 is 27, 2.0 is 200)          *)
(*   logarithms, sigma, normal draws                                       *)
(*                              thousandths (0.1 is 100)                   *)
(* Products are rounded to the unit of their result.                       *)
(***************************************************************************)
EXTENDS Integers, Sequences, FiniteSets, TLC

\* ---------------------------------------------------------------- bounds

\* Number of states of the modelled generator (the Mersenne Twister's 2^19937).
RngMod == 8
\* Largest n_months a call is made with.
MaxMonths == 3
\* Largest n_simulations a call is made with.
MaxSims == 2

\* Largest number of observations of a household of the panel.
MaxObs == 6

\* Python's None, for the optional seed, initial_income and first_negative_month.
None == -1

\* LARGE_JUMP_THRESHOLD of the analysis configuration, in percent.
LARGE_JUMP_THRESHOLD == 30

\* ---------------------------------------------------------------- helpers

Max(a, b) == IF a >= b THEN a ELSE b

Min(a, b) == IF a <= b THEN a ELSE b

Abs(a) == IF a < 0 THEN -a ELSE a

\* a / b rounded towards zero, b > 0.
Quot(a, b) == IF a >= 0 THEN a \div b ELSE -((-a) \div b)

RECURSIVE SeqSum(_)
SeqSum(s) == IF s = <<>> THEN 0 ELSE Head(s) + SeqSum(Tail(s))

RECURSIVE SeqMin(_)
SeqMin(s) == IF Len(s) = 1 THEN s[1] ELSE Min(Head(s), SeqMin(Tail(s)))

\* ---------------------------------------------------------------- numpy.random

\* The generator's state: the position x of the stream and the cached second
\* normal deviate of the legacy Gaussian sampler.
RngFresh == [x : 0..(RngMod - 1), has_gauss : {FALSE}, gauss : {0}]

\* np.random.seed(s): the state is a function of s alone, the cache is cleared.
NpSeed(s) == [x |-> (3 * s + 1) % RngMod, has_gauss |-> FALSE, gauss |-> 0]

\* One step of the stream.
RngNext(r) == [r EXCEPT !.x = (5 * r.x + 3) % RngMod]

\* The uniform deviate in [0, 1) the state r yields, in percent.
UniformOf(r) == (r.x * 100) \div RngMod

\* np.random.random(): [value, rng after the draw].
NpRandom(r) == [value |-> UniformOf(r), rng |-> RngNext(r)]

\* The standard normal deviate made of a uniform deviate, in thousandths.
GaussOf(u) ==
    IF u < 25 THEN -1500 ELSE IF u < 50 THEN -500 ELSE IF u < 75 THEN 500 ELSE 1500

\* The legacy Gaussian sampler: a cached deviate is returned and the cache
\* cleared; otherwise two uniforms are drawn, one deviate is returned and the
\* other cached.
NpGauss(r) ==
    IF r.has_gauss
    THEN [value |-> r.gauss, rng |-> [r EXCEPT !.has_gauss = FALSE, !.gauss = 0]]
    ELSE LET r1 == RngNext(r)
             r2 == RngNext(r1)
         IN  [value |-> GaussOf(UniformOf(r1)),
              rng |-> [r2 EXCEPT !.has_gauss = TRUE, !.gauss = GaussOf(UniformOf(r))]]

\* The states the generator can be in: with an empty cache, or as a Gaussian
\* draw leaves it.
RngStates == RngFresh \cup {NpGauss(r).rng : r \in RngFresh}

\* exp(y / 1000) in thousandths for 0 <= y < 693 (ln 2): linear between points.
ExpMantissa(y) ==
    IF y < 173 THEN 1000 + (y * 189) \div 173
    ELSE IF y < 347 THEN 1189 + ((y - 173) * 225) \div 174
    ELSE IF y < 520 THEN 1414 + ((y - 347) * 268) \div 173
    ELSE 1682 + ((y - 520) * 318) \div 173

\* np.exp: y and the result in thousandths; exp(-inf) is 0.
RECURSIVE ExpMilli(_)
ExpMilli(y) ==
    IF y < -20000 THEN 0
    ELSE IF y >= 693 THEN 2 * ExpMilli(y - 693)
    ELSE IF y < 0 THEN ExpMilli(y + 693) \div 2
    ELSE ExpMantissa(y)

\* ln(m / 1000) in thousandths for 1000 <= m <= 2000.
LnMantissa(m) ==
    IF m < 1250 THEN ((m - 1000) * 223) \div 250
    ELSE IF m < 1500 THEN 223 + ((m - 1250) * 182) \div 250
    ELSE IF m < 1750 THEN 405 + ((m - 1500) * 155) \div 250
    ELSE 560 + ((m - 1750) * 133) \div 250

\* ln(r / 1000) in thousandths, r >= 1000.
RECURSIVE LnAbove(_)
LnAbove(r) == IF r > 2000 THEN 693 + LnAbove(r \div 2) ELSE LnMantissa(r)

\* np.log of a ratio given in thousandths; log(0) is -inf, far below any clamp.
LnMilli(r) ==
    IF r <= 0 THEN -1000000
    ELSE IF r >= 1000 THEN LnAbove(r)
    ELSE -LnAbove(1000000 \div r)

\* np.random.normal(0, sigma): sigma and the result in thousandths.
NpNormal(r, sigma) ==
    LET g == NpGauss(r) IN [value |-> Quot(g.value * sigma, 1000), rng |-> g.rng]

\* np.random.lognormal(mu, sigma) with mu = log(median): median * exp(sigma * N(0, 1)).
\* median and the result in percent, sigma in thousandths.
NpLognormal(r, median, sigma) ==
    LET g == NpGauss(r)
    IN  [value |-> (median * ExpMilli(Quot(g.value * sigma, 1000))) \div 1000,
         rng |-> g.rng]

\* ---------------------------------------------------------------- income models

\* Mutant of JumpSigma: sigma is not bounded to [0.1, 1.0].
JumpSigmaUnclamped(params) ==
    LET iqr_ratio == IF params.jump_q25 > 0
                     THEN (params.jump_q75 * 1000) \div params.jump_q25
                     ELSE 2000
        sigma == (LnMilli(iqr_ratio) * 100) \div 135
    IN  sigma

\* sigma of the lognormal jump size, in thousandths.
JumpSigma(params) ==
    LET iqr_ratio == IF params.jump_q25 > 0
                     THEN (params.jump_q75 * 1000) \div params.jump_q25
                     ELSE 2000
        sigma == (LnMilli(iqr_ratio) * 100) \div 135
    IN  Max(100, Min(sigma, 1000))

\* Mutant of JumpMonth: the income after a jump is not floored at 100.
JumpMonthNoFloor(r, prev, params) ==
    LET d == NpRandom(r)
    IN  IF d.value < params.lambda
        THEN LET j == NpLognormal(d.rng, params.jump_median_pct, JumpSigma(params))
                 jump_pct == Min(j.value, 200)
                 u == NpRandom(j.rng)
                 moved == IF u.value < params.prob_upward
                          THEN (prev * (100 + jump_pct)) \div 100
                          ELSE (prev * Max(1, 100 - jump_pct)) \div 100
             IN  [income |-> moved, rng |-> u.rng]
        ELSE [income |-> prev, rng |-> d.rng]

\* Mutant of JumpMonth: a uniform draw equal to lambda also is a jump.
JumpMonthInclusive(r, prev, params) ==
    LET d == NpRandom(r)
    IN  IF d.value <= params.lambda
        THEN LET j == NpLognormal(d.rng, params.jump_median_pct, JumpSigma(params))
                 jump_pct == Min(j.value, 200)
                 u == NpRandom(j.rng)
                 moved == IF u.value < params.prob_upward
                          THEN (prev * (100 + jump_pct)) \div 100
                          ELSE (prev * Max(1, 100 - jump_pct)) \div 100
             IN  [income |-> Max(100, moved), rng |-> u.rng]
        ELSE [income |-> prev, rng |-> d.rng]

\* Mutant of JumpMonth: the jump size is not capped at 2.0.
JumpMonthUncapped(r, prev, params) ==
    LET d == NpRandom(r)
    IN  IF d.value < params.lambda
        THEN LET j == NpLognormal(d.rng, params.jump_median_pct, JumpSigma(params))
                 jump_pct == j.value
                 u == NpRandom(j.rng)
                 moved == IF u.value < params.prob_upward
                          THEN (prev * (100 + jump_pct)) \div 100
                          ELSE (prev * Max(1, 100 - jump_pct)) \div 100
             IN  [income |-> Max(100, moved), rng |-> u.rng]
        ELSE [income |-> prev, rng |-> d.rng]

\* One iteration of the jump model's month loop: [income, rng].
JumpMonth(r, prev, params) ==
    LET d == NpRandom(r)
    IN  IF d.value < params.lambda
        THEN LET j == NpLognormal(d.rng, params.jump_median_pct, JumpSigma(params))
                 jump_pct == Min(j.value, 200)
                 u == NpRandom(j.rng)
                 moved == IF u.value < params.prob_upward
                          THEN (prev * (100 + jump_pct)) \div 100
                          ELSE (prev * Max(1, 100 - jump_pct)) \div 100
             IN  [income |-> Max(100, moved), rng |-> u.rng]
        ELSE [income |-> prev, rng |-> d.rng]

\* The month loop for t in range(1, n_months), from the income built so far.
RECURSIVE JumpLoop(_, _, _, _)
JumpLoop(r, income, n_months, params) ==
    IF Len(income) >= n_months
    THEN [income |-> income, rng |-> r]
    ELSE LET m == JumpMonth(r, income[Len(income)], params)
         IN  JumpLoop(m.rng, Append(income, m.income), n_months, params)

\* Mutant of simulate_trajectory: the seed is tested for truth, so seed 0 does
\* not seed.
simulate_trajectory_truthy(r, initial_income, n_months, params, seed) ==
    LET r0 == IF seed # None /\ seed # 0 THEN NpSeed(seed) ELSE r
    IN  JumpLoop(r0, <<initial_income>>, n_months, params)

\* Mutant of simulate_trajectory: the month loop starts at month 0, so that
\* income[0] is the initial income after a possible jump.
simulate_trajectory_from_zero(r, initial_income, n_months, params, seed) ==
    LET r0 == IF seed # None THEN NpSeed(seed) ELSE r
        m == JumpMonth(r0, initial_income, params)
    IN  JumpLoop(m.rng, <<m.income>>, n_months, params)

\* Mutant of simulate_trajectory: income[0] is floored at 100 like the rest.
simulate_trajectory_floored(r, initial_income, n_months, params, seed) ==
    LET r0 == IF seed # None THEN NpSeed(seed) ELSE r
    IN  JumpLoop(r0, <<Max(100, initial_income)>>, n_months, params)

\* RiskEngine.simulate_trajectory (backend), from generator state r:
\* [income, rng], the trajectory and the generator state it leaves.
simulate_trajectory(r, initial_income, n_months, params, seed) ==
    LET r0 == IF seed # None THEN NpSeed(seed) ELSE r
    IN  JumpLoop(r0, <<initial_income>>, n_months, params)

\* RiskEngine.simulate_trajectory (backend/package): the same code.
package_simulate_trajectory(r, initial_income, n_months, params, seed) ==
    LET r0 == IF seed # None THEN NpSeed(seed) ELSE r
    IN  JumpLoop(r0, <<initial_income>>, n_months, params)

\* Simulation.simulate_trajectory (data_analysis): the same code.
Simulation_simulate_trajectory(r, initial_income, n_months, params, seed) ==
    LET r0 == IF seed # None THEN NpSeed(seed) ELSE r
    IN  JumpLoop(r0, <<initial_income>>, n_months, params)

\* Mutant of RunSimulationsLoop: the generator is seeded with the trial's index
\* before the initial income is drawn.
RECURSIVE RunSimulationsSeedFirst(_, _, _, _, _)
RunSimulationsSeedFirst(r, simulated_trajectories, n, n_months, params) ==
    IF Len(simulated_trajectories) >= n
    THEN [simulated_trajectories |-> simulated_trajectories, rng |-> r]
    ELSE LET trial == Len(simulated_trajectories)
             initial == NpLognormal(NpSeed(trial), params.initial_income_median, 500)
             t == Simulation_simulate_trajectory(initial.rng, initial.value,
                                                 n_months, params, None)
         IN  RunSimulationsSeedFirst(t.rng, Append(simulated_trajectories, t.income),
                                     n, n_months, params)

\* The trial loop of Simulation.run_simulations from the trajectories built so
\* far: the initial income is drawn, then simulate_trajectory reseeds with the
\* trial's index.
RECURSIVE RunSimulationsLoop(_, _, _, _, _)
RunSimulationsLoop(r, simulated_trajectories, n, n_months, params) ==
    IF Len(simulated_trajectories) >= n
    THEN [simulated_trajectories |-> simulated_trajectories, rng |-> r]
    ELSE LET trial == Len(simulated_trajectories)
             initial == NpLognormal(r, params.initial_income_median, 500)
             t == Simulation_simulate_trajectory(initial.rng, initial.value,
                                                 n_months, params, trial)
         IN  RunSimulationsLoop(t.rng, Append(simulated_trajectories, t.income),
                                n, n_months, params)

\* Simulation.run_simulations: [simulated_trajectories, rng].
run_simulations(r, n, n_months, params) ==
    RunSimulationsLoop(r, <<>>, n, n_months, params)

\* The AR(1) month loop over log income (thousandths).
RECURSIVE AR1Loop(_, _, _, _)
AR1Loop(r, log_income, n_months, params) ==
    IF Len(log_income) >= n_months
    THEN [log_income |-> log_income, rng |-> r]
    ELSE LET shock == NpNormal(r, params.sigma)
             mu_household == log_income[1]
             next == mu_household
                     + Quot(params.rho * (log_income[Len(log_income)] - mu_household), 100)
                     + shock.value
         IN  AR1Loop(shock.rng, Append(log_income, next), n_months, params)

\* AR1Model.simulate_trajectory: exp of the log path, floored at 100.
AR1Model_simulate_trajectory(r, initial_income, n_months, params, seed) ==
    LET r0 == IF seed # None THEN NpSeed(seed) ELSE r
        path == AR1Loop(r0, <<LnMilli(initial_income * 1000)>>, n_months, params)
    IN  [income |-> [t \in 1..n_months |->
                        Max(ExpMilli(path.log_income[t]) \div 1000, 100)],
         rng |-> path.rng]

\* ---------------------------------------------------------------- statistics

\* s with x inserted before the first element greater than x (s sorted).
RECURSIVE Insert(_, _)
Insert(x, s) ==
    IF s = <<>> THEN <<x>>
    ELSE IF x <= Head(s) THEN <<x>> \o s
    ELSE <<Head(s)>> \o Insert(x, Tail(s))

RECURSIVE Sorted(_)
Sorted(s) == IF s = <<>> THEN <<>> ELSE Insert(Head(s), Sorted(Tail(s)))

\* Mutant of Percentile: the values are interpolated in the order of the trials.
PercentileUnsorted(s, p) ==
    LET a == s
        h == (Len(a) - 1) * p
        lo == h \div 100 + 1
        hi == Min(lo + 1, Len(a))
    IN  100 * a[lo] + (a[hi] - a[lo]) * (h % 100)

\* np.percentile(s, p), linear interpolation, in hundredths of s's unit.
Percentile(s, p) ==
    LET a == Sorted(s)
        h == (Len(a) - 1) * p
        lo == h \div 100 + 1
        hi == Min(lo + 1, Len(a))
    IN  100 * a[lo] + (a[hi] - a[lo]) * (h % 100)

\* np.mean(s) in hundredths.
Mean(s) == Quot(SeqSum(s) * 100, Len(s))

\* count / n * 100, in hundredths of a percent.
Pct(count, n) == (count * 10000) \div n

\* Column m (1-based) of a matrix given as a sequence of rows.
Column(rows, m) == [k \in 1..Len(rows) |-> rows[k][m]]

\* The integer square root of v, searched in lo..hi.
RECURSIVE IsqrtIn(_, _, _)
IsqrtIn(v, lo, hi) ==
    IF lo >= hi THEN lo
    ELSE LET mid == (lo + hi + 1) \div 2
         IN  IF mid * mid <= v THEN IsqrtIn(v, mid, hi) ELSE IsqrtIn(v, lo, mid - 1)

\* np.std(s) (population), rounded up to a whole unit: 0 only when all
\* elements are equal.
Std(s) ==
    LET n == Len(s)
        sq == [k \in 1..n |-> s[k] * s[k]]
        v == n * SeqSum(sq) - SeqSum(s) * SeqSum(s)
        root == IsqrtIn(v, 0, Min(v, 46340))
        up == IF root * root = v THEN root ELSE root + 1
    IN  (up + n - 1) \div n

\* np.median(s), rounded to the unit of s.
Median(s) == Quot(Percentile(s, 50), 100)

\* np.percentile(s, p), rounded to the unit of s.
PercentileUnit(s, p) == Quot(Percentile(s, p), 100)

\* sum(s ** 2) and sum(a * b)
SumSq(s) == SeqSum([k \in 1..Len(s) |-> s[k] * s[k]])

SumProd(a, b) == SeqSum([k \in 1..Len(a) |-> a[k] * b[k]])

\* np.var(s) times len(s) squared: exact in integers.
VarN2(s) == Len(s) * SumSq(s) - SeqSum(s) * SeqSum(s)

\* The population covariance of a and b times len(a) squared.
CovN2(a, b) == Len(a) * SumProd(a, b) - SeqSum(a) * SeqSum(b)

\* ---------------------------------------------------------------- np.random.choice

\* The Fisher-Yates shuffle of permutation(n), positions k down to 2 (1-based).
RECURSIVE Shuffle(_, _, _)
Shuffle(r, a, k) ==
    IF k < 2 THEN [value |-> a, rng |-> r]
    ELSE LET j == (UniformOf(r) * k) \div 100 + 1
             b == [a EXCEPT ![k] = a[j], ![j] = a[k]]
         IN  Shuffle(RngNext(r), b, k - 1)

\* Mutant of NpChoice: the indices are drawn with replacement.
RECURSIVE Redraw(_, _, _, _)
Redraw(r, n, size, drawn) ==
    IF Len(drawn) >= size THEN [value |-> drawn, rng |-> r]
    ELSE Redraw(RngNext(r), n, size, Append(drawn, (UniformOf(r) * n) \div 100))

NpChoiceReplace(r, n, size) == Redraw(r, n, size, <<>>)

\* np.random.choice(n, size, replace=False): the first size elements of a
\* random permutation of 0..n-1.
NpChoice(r, n, size) ==
    LET p == Shuffle(r, [k \in 1..n |-> k - 1], n)
    IN  [value |-> SubSeq(p.value, 1, size), rng |-> p.rng]

\* ---------------------------------------------------------------- panel data

\* income[income > 0]: the positive observations, in order (NaN is not > 0).
IsPositive(v) == v > 0

Positive(income) == SelectSeq(income, IsPositive)

\* np.diff(s)
Diff(s) == [k \in 1..(Len(s) - 1) |-> s[k + 1] - s[k]]

\* np.diff(s) / s[:-1], in percent.
PctChanges(s) == [k \in 1..(Len(s) - 1) |-> Quot((s[k + 1] - s[k]) * 100, s[k])]

\* The positive observations of all households of the panel, household after
\* household.
RECURSIVE AllPositive(_)
AllPositive(data) ==
    IF data = <<>> THEN <<>> ELSE Positive(Head(data)) \o AllPositive(Tail(data))

\* np.log of incomes, in thousandths.
LogIncome(incomes) == [k \in 1..Len(incomes) |-> LnMilli(incomes[k] * 1000)]

\* s minus its first element: np.std and np.var do not depend on the shift.
Shifted(s) == [k \in 1..Len(s) |-> s[k] - s[1]]

\* ---------------------------------------------------------------- AR(1) estimator

\* Mutant of AR1Household: two positive observations are enough.
AR1HouseholdTwo(income) ==
    LET income_nonzero == Positive(income)
        n == Len(income_nonzero)
        log_income == LogIncome(income_nonzero)
        mu_i == Quot(SeqSum(log_income), n)
        log_income_demeaned == [k \in 1..n |-> log_income[k] - mu_i]
        y_t == SubSeq(log_income_demeaned, 2, n)
        y_t_lag == SubSeq(log_income_demeaned, 1, n - 1)
        m == n - 1
        rho_raw == Quot(Quot(CovN2(y_t, y_t_lag) * m, m - 1) * 100, VarN2(y_t_lag))
        rho_i == Max(0, Min(rho_raw, 99))
        residuals == [k \in 1..m |-> y_t[k] - Quot(rho_i * y_t_lag[k], 100)]
    IN  IF n < 2
        THEN [means |-> <<>>, rhos |-> <<>>, sigmas |-> <<>>, residuals |-> <<>>]
        ELSE IF m >= 3 /\ VarN2(y_t_lag) > m * m
        THEN [means |-> <<mu_i>>, rhos |-> <<rho_i>>,
              sigmas |-> <<Std(residuals)>>, residuals |-> residuals]
        ELSE [means |-> <<mu_i>>, rhos |-> <<>>, sigmas |-> <<>>, residuals |-> <<>>]

\* The body of the household loop of estimate_ar1_parameters: what one
\* household adds to household_means, household_rhos, household_sigmas and
\* all_residuals.  Logarithms, means, sigma and residuals in thousandths, rho
\* in percent; np.var(y_t_lag) > 1e-6 is VarN2 > m * m in millionths.
AR1Household(income) ==
    LET income_nonzero == Positive(income)
        n == Len(income_nonzero)
        log_income == LogIncome(income_nonzero)
        mu_i == Quot(SeqSum(log_income), n)
        log_income_demeaned == [k \in 1..n |-> log_income[k] - mu_i]
        y_t == SubSeq(log_income_demeaned, 2, n)
        y_t_lag == SubSeq(log_income_demeaned, 1, n - 1)
        m == n - 1
        rho_raw == Quot(Quot(CovN2(y_t, y_t_lag) * m, m - 1) * 100, VarN2(y_t_lag))
        rho_i == Max(0, Min(rho_raw, 99))
        residuals == [k \in 1..m |-> y_t[k] - Quot(rho_i * y_t_lag[k], 100)]
    IN  IF n < 6
        THEN [means |-> <<>>, rhos |-> <<>>, sigmas |-> <<>>, residuals |-> <<>>]
        ELSE IF m >= 3 /\ VarN2(y_t_lag) > m * m
        THEN [means |-> <<mu_i>>, rhos |-> <<rho_i>>,
              sigmas |-> <<Std(residuals)>>, residuals |-> residuals]
        ELSE [means |-> <<mu_i>>, rhos |-> <<>>, sigmas |-> <<>>, residuals |-> <<>>]

\* The household loop of estimate_ar1_parameters over the whole panel.
RECURSIVE AR1Households(_)
AR1Households(data) ==
    IF data = <<>>
    THEN [means |-> <<>>, rhos |-> <<>>, sigmas |-> <<>>, residuals |-> <<>>]
    ELSE LET h == AR1Household(Head(data))
             rest == AR1Households(Tail(data))
         IN  [means |-> h.means \o rest.means, rhos |-> h.rhos \o rest.rhos,
              sigmas |-> h.sigmas \o rest.sigmas,
              residuals |-> h.residuals \o rest.residuals]

\* AR1Model.estimate_ar1_parameters: the dictionary it returns.
estimate_ar1_parameters(data) ==
    LET households == AR1Households(data)
        all_incomes == AllPositive(data)
    IN  [rho |-> IF households.rhos # <<>> THEN Median(households.rhos) ELSE 70,
         mu |-> IF households.means # <<>> THEN Median(households.means) ELSE 8500,
         sigma |-> IF households.sigmas # <<>> THEN Median(households.sigmas) ELSE 150,
         initial_income_median |->
             IF Len(all_incomes) > 0 THEN Median(all_incomes) ELSE 5000,
         initial_income_std |->
             IF Len(all_incomes) > 0 THEN Std(Shifted(LogIncome(all_incomes))) ELSE 500,
         n_households |-> Len(households.rhos),
         n_residuals |-> Len(households.residuals)]

\* ---------------------------------------------------------------- jump estimator

\* np.abs(pct_changes[changes != 0]) of the positive observations s from index
\* k on, in percent.
RECURSIVE NonzeroPctChanges(_, _)
NonzeroPctChanges(s, k) ==
    IF k >= Len(s) THEN <<>>
    ELSE (IF s[k + 1] # s[k]
          THEN <<Abs(Quot((s[k + 1] - s[k]) * 100, s[k]))>> ELSE <<>>)
         \o NonzeroPctChanges(s, k + 1)

\* Mutant of JumpHousehold: total_jumps counts every change, zero changes
\* included.
JumpHouseholdAllJumps(income) ==
    LET income_nonzero == Positive(income)
        changes == Diff(income_nonzero)
    IN  IF Len(income_nonzero) < 2
        THEN [all_incomes |-> <<>>, total_changes_count |-> 0,
              zero_changes_count |-> 0, all_pct_changes |-> <<>>,
              upward_jumps |-> 0, total_jumps |-> 0]
        ELSE [all_incomes |-> income_nonzero,
              total_changes_count |-> Len(changes),
              zero_changes_count |->
                  Cardinality({k \in 1..Len(changes) : changes[k] = 0}),
              all_pct_changes |-> NonzeroPctChanges(income_nonzero, 1),
              upward_jumps |-> Cardinality({k \in 1..Len(changes) : changes[k] > 0}),
              total_jumps |-> Len(changes)]

\* The body of the household loop of estimate_model_parameters: what one
\* household adds to the pooled lists and counters.
JumpHousehold(income) ==
    LET income_nonzero == Positive(income)
        changes == Diff(income_nonzero)
    IN  IF Len(income_nonzero) < 2
        THEN [all_incomes |-> <<>>, total_changes_count |-> 0,
              zero_changes_count |-> 0, all_pct_changes |-> <<>>,
              upward_jumps |-> 0, total_jumps |-> 0]
        ELSE [all_incomes |-> income_nonzero,
              total_changes_count |-> Len(changes),
              zero_changes_count |->
                  Cardinality({k \in 1..Len(changes) : changes[k] = 0}),
              all_pct_changes |-> NonzeroPctChanges(income_nonzero, 1),
              upward_jumps |-> Cardinality({k \in 1..Len(changes) : changes[k] > 0}),
              total_jumps |-> Cardinality({k \in 1..Len(changes) : changes[k] # 0})]

\* The household loop of estimate_model_parameters over the whole panel.
RECURSIVE JumpHouseholds(_)
JumpHouseholds(data) ==
    IF data = <<>>
    THEN [all_incomes |-> <<>>, total_changes_count |-> 0,
          zero_changes_count |-> 0, all_pct_changes |-> <<>>,
          upward_jumps |-> 0, total_jumps |-> 0]
    ELSE LET h == JumpHousehold(Head(data))
             rest == JumpHouseholds(Tail(data))
         IN  [all_incomes |-> h.all_incomes \o rest.all_incomes,
              total_changes_count |-> h.total_changes_count + rest.total_changes_count,
              zero_changes_count |-> h.zero_changes_count + rest.zero_changes_count,
              all_pct_changes |-> h.all_pct_changes \o rest.all_pct_changes,
              upward_jumps |-> h.upward_jumps + rest.upward_jumps,
              total_jumps |-> h.total_jumps + rest.total_jumps]

\* np.clip(s, 0, pct_99) with pct_99 the 99th percentile of s.
Winsorized(s) ==
    IF Len(s) > 0
    THEN LET pct_99 == PercentileUnit(s, 99)
         IN  [k \in 1..Len(s) |-> Max(0, Min(s[k], pct_99))]
    ELSE s

\* Simulation.estimate_model_parameters: the dictionary it returns, fractions
\* in percent.
estimate_model_parameters(data) ==
    LET pooled == JumpHouseholds(data)
        all_pct_changes_winsorized == Winsorized(pooled.all_pct_changes)
        all_incomes == pooled.all_incomes
        any_change == Len(all_pct_changes_winsorized) > 0
    IN  [lambda |-> IF pooled.total_changes_count > 0
                    THEN 100 - Quot(pooled.zero_changes_count * 100,
                                    pooled.total_changes_count)
                    ELSE 10,
         jump_median_pct |->
             IF any_change THEN Median(all_pct_changes_winsorized) ELSE 15,
         jump_q25 |->
             IF any_change THEN PercentileUnit(all_pct_changes_winsorized, 25) ELSE 5,
         jump_q75 |->
             IF any_change THEN PercentileUnit(all_pct_changes_winsorized, 75) ELSE 25,
         prob_upward |-> IF pooled.total_jumps > 0
                         THEN Quot(pooled.upward_jumps * 100, pooled.total_jumps)
                         ELSE 50,
         initial_income_median |->
             IF Len(all_incomes) > 0 THEN Median(all_incomes) ELSE 5000,
         initial_income_iqr |->
             IF Len(all_incomes) > 0
             THEN PercentileUnit(all_incomes, 75) - PercentileUnit(all_incomes, 25)
             ELSE 3000]

\* ---------------------------------------------------------------- household statistics

\* np.nan, and a number.
NaN == [nan |-> TRUE, value |-> 0]

Num(v) == [nan |-> FALSE, value |-> v]

\* n times the deviation of each element of s from the mean of s, in tenths.
Deviations(s) ==
    [k \in 1..Len(s) |-> Quot(Len(s) * s[k] - SeqSum(s), 10)]

\* The sum of the j-th powers of s, j in 2..4.
PowerSum(s, j) ==
    SeqSum([k \in 1..Len(s) |->
               IF j = 2 THEN s[k] * s[k]
               ELSE IF j = 3 THEN s[k] * s[k] * s[k]
               ELSE s[k] * s[k] * s[k] * s[k]])

\* scipy.stats.skew(s): m3 / m2^1.5 of the biased central moments, in
\* hundredths.  For constant s (m2 = 0) the result depends on the SciPy
\* installed: NaN, or 0.
Skew(s, constant_is_nan) ==
    LET e == Deviations(s)
        s2 == PowerSum(e, 2)
        s3 == PowerSum(e, 3)
        root_n == IsqrtIn(Len(s) * 10000, 0, 1000)
        root_s2 == IsqrtIn(s2 * 100, 0, 46340)
    IN  IF VarN2(s) = 0 THEN (IF constant_is_nan THEN NaN ELSE Num(0))
        ELSE Num(Quot(Quot(s3 * 100, s2) * root_n, root_s2 * 10))

\* scipy.stats.kurtosis(s): m4 / m2^2 - 3, in hundredths.  For constant s the
\* result depends on the SciPy installed: NaN, or -3.
Kurtosis(s, constant_is_nan) ==
    LET e == Deviations(s)
        s2 == PowerSum(e, 2)
        s4 == PowerSum(e, 4)
    IN  IF VarN2(s) = 0 THEN (IF constant_is_nan THEN NaN ELSE Num(-300))
        ELSE Num(Quot(Quot(s4 * Len(s), s2) * 100, s2) - 300)

\* np.corrcoef(a, b)[0, 1] in hundredths; NaN when a or b is constant.
Corrcoef(a, b) ==
    IF VarN2(a) = 0 \/ VarN2(b) = 0 THEN NaN
    ELSE Num(Quot(CovN2(a, b) * 100,
                  IsqrtIn(VarN2(a), 0, 46340) * IsqrtIn(VarN2(b), 0, 46340)))

\* (np.abs(pct_changes) >= threshold).sum() / len(pct_changes), in percent.
FracAtLeast(pct_changes, threshold) ==
    IF Len(pct_changes) > 0
    THEN Quot(100 * Cardinality({k \in 1..Len(pct_changes) :
                                    Abs(pct_changes[k]) >= threshold}),
              Len(pct_changes))
    ELSE 0

\* Mutant of EnoughChanges: only the changes that are not zero are counted.
EnoughNonzeroChanges(pct_changes, least) ==
    Cardinality({k \in 1..Len(pct_changes) : pct_changes[k] # 0}) >= least

\* len(pct_changes) >= 3, len(pct_changes) >= 4
EnoughChanges(pct_changes, least) == Len(pct_changes) >= least

\* Statistics.calc_household_stats for the THTOTINC column income: the Series
\* it returns.
calc_household_stats(income, constant_is_nan) ==
    LET income_nonzero == Positive(income)
        n == Len(income_nonzero)
        pct_changes == PctChanges(income_nonzero)
    IN  IF n < 2
        THEN [variance |-> NaN, cv |-> NaN, jump_freq |-> NaN, skewness |-> NaN,
              kurtosis |-> NaN, autocorrelation |-> NaN,
              frac_large_jumps_25pct |-> NaN, frac_large_jumps_50pct |-> NaN,
              n_months |-> Len(income)]
        ELSE [variance |-> Num(Quot(VarN2(income_nonzero), n * n)),
              cv |-> Num(Quot(Std(income_nonzero) * 100,
                              Quot(SeqSum(income_nonzero), n))),
              jump_freq |-> Num(FracAtLeast(pct_changes, LARGE_JUMP_THRESHOLD)),
              skewness |-> IF EnoughChanges(pct_changes, 3)
                           THEN Skew(pct_changes, constant_is_nan) ELSE NaN,
              kurtosis |-> IF EnoughChanges(pct_changes, 4)
                           THEN Kurtosis(pct_changes, constant_is_nan) ELSE NaN,
              autocorrelation |->
                  IF n > 2
                  THEN Corrcoef(SubSeq(income_nonzero, 1, n - 1),
                                SubSeq(income_nonzero, 2, n))
                  ELSE NaN,
              frac_large_jumps_25pct |-> Num(FracAtLeast(pct_changes, 25)),
              frac_large_jumps_50pct |-> Num(FracAtLeast(pct_changes, 50)),
              n_months |-> Len(income)]

\* Simulation.calc_validation_stats: is_none when it returns None, else the
\* dictionary of the household statistics without n_months, with
\* mean_nonzero_pct_change and frac_zero_change (percent).
calc_validation_stats(trajectory, constant_is_nan) ==
    IF Len(trajectory) < 2 THEN [is_none |-> TRUE]
    ELSE LET stats_series == calc_household_stats(trajectory, constant_is_nan)
             trajectory_nonzero == Positive(trajectory)
             changes == Diff(trajectory_nonzero)
             moves == NonzeroPctChanges(trajectory_nonzero, 1)
             measured == Len(trajectory_nonzero) >= 2
         IN  [is_none |-> FALSE,
              variance |-> stats_series.variance,
              cv |-> stats_series.cv,
              jump_freq |-> stats_series.jump_freq,
              skewness |-> stats_series.skewness,
              kurtosis |-> stats_series.kurtosis,
              autocorrelation |-> stats_series.autocorrelation,
              frac_large_jumps_25pct |-> stats_series.frac_large_jumps_25pct,
              frac_large_jumps_50pct |-> stats_series.frac_large_jumps_50pct,
              mean_nonzero_pct_change |->
                  IF ~measured THEN NaN
                  ELSE IF moves # <<>> THEN Num(Quot(SeqSum(moves), Len(moves)))
                  ELSE Num(0),
              frac_zero_change |->
                  IF ~measured THEN NaN
                  ELSE Num(Quot(100 * Cardinality({k \in 1..Len(changes) :
                                                      changes[k] = 0}),
                                Len(changes)))]

\* ---------------------------------------------------------------- state

VARIABLES
    rng,                        \* the process-wide generator np.random
    env,                        \* the household and model parameters of the run
    raw_data,                   \* the panel: for each household its THTOTINC column
    group,                      \* the column the statistics were last computed for
    pc,                         \* idle, loop (top of the trial loop), month, trial_end, done
    calls_left,                 \* calls the caller still makes
    kind,                       \* the function the current or last call runs
    seed,                       \* its seed argument
    n_simulations,              \* its n_simulations argument
    given,                      \* run_risk_assessment: the engine holds an initial_income
    i,                          \* the trial index
    income_trajectory, month_idx, balance, monthly_balances, went_negative,
    first_negative_month, exhausted_credit, total_interest,
    credit_exhaustion_tracker, all_paths, terminal_values, min_balances,
    ever_negative, months_to_negative, credit_exhausted,
    total_interest_paid_list, sample_indices, sample_paths,
    debt_trials, final_balances,
    trajectories,               \* history: the trajectory of each trial of the call
    result,                     \* what the last call returned
    prev                        \* history: the call before the last one

callVars == <<kind, seed, n_simulations, given>>

trialVars ==
    <<income_trajectory, month_idx, balance, monthly_balances, went_negative,
      first_negative_month, exhausted_credit, total_interest>>

accVars ==
    <<credit_exhaustion_tracker, all_paths, terminal_values, min_balances,
      ever_negative, months_to_negative, credit_exhausted,
      total_interest_paid_list, sample_indices, sample_paths,
      debt_trials, final_balances>>

dataVars == <<raw_data, group>>

vars == <<rng, env, dataVars, pc, calls_left, callVars, i, trialVars, accVars,
          trajectories, result, prev>>

\* ---------------------------------------------------------------- inputs

\* The credit terms of env: available_credit and interest_rate (percent a year).
available_credit == env.credit[1]

interest_rate == env.credit[2]

\* MODEL_PARAMS of the service, and variants of it: no jumps, a jump every
\* month, and a zero lower quartile.
ConfigParams ==
    [lambda |-> 27, jump_median_pct |-> 23, jump_q25 |-> 11, jump_q75 |-> 54,
     prob_upward |-> 50, rho |-> 70, sigma |-> 150, initial_income_median |-> 300]

ParamSets ==
    { ConfigParams,
      [ConfigParams EXCEPT !.lambda = 0],
      [ConfigParams EXCEPT !.lambda = 100, !.jump_q25 = 0] }

Seeds == {None, 0, 1, 2}

\* The households every function is called for.
BaseEnvs ==
    [initial_fund : {0, 200},
     monthly_expenses : {300, 450},
     initial_income : {50, 300},
     credit : {<<0, 0>>, <<0, 24>>, <<400, 24>>},
     n_months : 1..MaxMonths,
     n_sample_paths : {1},
     params : ParamSets]

\* A household that starts in debt.
IndebtedEnvs ==
    [initial_fund : {-100},
     monthly_expenses : {300},
     initial_income : {300},
     credit : {<<400, 24>>},
     n_months : {MaxMonths},
     n_sample_paths : {1},
     params : ParamSets]

\* A household that earns twice what it spends, over one month.
SaverEnvs ==
    [initial_fund : {0, 200},
     monthly_expenses : {3000},
     initial_income : {6000},
     credit : {<<0, 24>>},
     n_months : {1},
     n_sample_paths : {1},
     params : {[ConfigParams EXCEPT !.lambda = 0]}]

\* A household without expenses.
FrugalEnvs ==
    [initial_fund : {0, 200},
     monthly_expenses : {0},
     initial_income : {300},
     credit : {<<0, 24>>},
     n_months : {1, MaxMonths},
     n_sample_paths : {1},
     params : ParamSets]

\* Requests for no sample path, for several, and for more than there are trials.
SamplingEnvs ==
    [initial_fund : {0},
     monthly_expenses : {300, 450},
     initial_income : {300},
     credit : {<<0, 24>>},
     n_months : {MaxMonths},
     n_sample_paths : {0, 2, MaxSims + 1},
     params : ParamSets]

Envs == BaseEnvs \cup IndebtedEnvs \cup SaverEnvs \cup FrugalEnvs \cup SamplingEnvs

\* The households of the runs that call twice.
RepeatEnvs ==
    [initial_fund : {0, 200},
     monthly_expenses : {300, 450},
     initial_income : {300},
     credit : {<<0, 24>>},
     n_months : {MaxMonths},
     n_sample_paths : {1},
     params : ParamSets]

\* Parameters with a median jump of 150 percent, so that jump sizes exceed the
\* cap of 200 percent, and the same with a jump every month.
VolatileParams ==
    { [ConfigParams EXCEPT !.jump_median_pct = 150],
      [ConfigParams EXCEPT !.jump_median_pct = 150, !.lambda = 100] }

\* Households with such parameters, one with an income above 10000, a hundredth
\* of which is above the floor.
VolatileEnvs ==
    [initial_fund : {0},
     monthly_expenses : {300},
     initial_income : {300, 20000},
     credit : {<<0, 0>>},
     n_months : {MaxMonths},
     n_sample_paths : {1},
     params : VolatileParams]

\* A jump every month, with quartiles of the jump size that are zero, negative,
\* close to each other, far apart and in between.
QuartileParams ==
    { [ConfigParams EXCEPT !.lambda = 100, !.jump_q25 = q[1], !.jump_q75 = q[2]] :
          q \in {<<0, 54>>, <<-5, 54>>, <<-5, 20>>, <<11, 0>>, <<11, -54>>,
                  <<11, 12>>, <<11, 30>>, <<11, 54>>} }

QuartileEnvs ==
    [initial_fund : {0},
     monthly_expenses : {300},
     initial_income : {300},
     credit : {<<0, 0>>},
     n_months : {MaxMonths},
     n_sample_paths : {1},
     params : QuartileParams]

\* The households of the runs that call simulate_trajectory directly.
TrajEnvs ==
    [initial_fund : {0},
     monthly_expenses : {300},
     initial_income : {50, 300},
     credit : {<<0, 0>>},
     n_months : 1..MaxMonths,
     n_sample_paths : {1},
     params : ParamSets] \cup VolatileEnvs \cup QuartileEnvs

\* The household of the analysis run, which simulates nothing.
DataEnvs ==
    {e \in TrajEnvs :
        e.n_months = 1 /\ e.initial_income = 300 /\ e.params = ConfigParams}

\* The monthly incomes a household reports; 0 stands for a month without income.
Incomes == {0, 100, 200}

\* The THTOTINC columns of up to MaxObs months.
Households == UNION {[1..n -> Incomes] : n \in 0..MaxObs}

\* Second households of a panel: one month, six months without a change, six
\* months with changes.
Companions ==
    { <<100>>,
      <<200, 200, 200, 200, 200, 200>>,
      <<100, 200, 100, 100, 200, 200>> }

\* The panels: no household, one, or one and a companion.
Panels ==
    {<<>>} \cup {<<h>> : h \in Households}
           \cup {<<h, c>> : h \in Households, c \in Companions}

NoCall ==
    [kind |-> "none", seed |-> None, n_simulations |-> 0, given |-> FALSE,
     trajectories |-> <<>>, result |-> <<>>]

\* ---------------------------------------------------------------- balance simulators

\* Mutant of EntrySeed: the seed is tested for truth, so seed 0 does not seed.
EntrySeedTruthy(sd, r) == IF sd # None /\ sd # 0 THEN NpSeed(sd) ELSE r

\* if seed is not None: np.random.seed(seed), at the entry of a Monte Carlo call
EntrySeed(sd, r) == IF sd # None THEN NpSeed(sd) ELSE r

\* Mutant of TrialSeed: trial i is seeded with seed + i.
TrialSeedOffset(sd, trial) == IF sd # None /\ sd # 0 THEN sd + trial ELSE None

\* Mutant of TrialSeed: no trial reseeds the generator.
TrialSeedNever(sd, trial) == None

\* seed=i if seed else None
TrialSeed(sd, trial) == IF sd # None /\ sd # 0 THEN trial ELSE None

\* Mutant of MonthlyInterest: the annual rate is charged every month.
MonthlyInterestAnnual(b, rate) == Quot(b * rate, 100)

\* balance * (interest_rate / 12), interest_rate in percent
MonthlyInterest(b, rate) == Quot(b * rate, 1200)

\* if balance < -available_credit
ExceedsCredit(b, credit) == b < -credit

\* Mutant of DebtStep: exhausted_credit is recomputed every month instead of
\* being kept once set.
DebtStepRecomputed(b, idx) ==
    IF b < 0
    THEN LET monthly_interest == MonthlyInterest(b, interest_rate)
             owed == b + monthly_interest
         IN  [balance |-> owed,
              total_interest |-> total_interest + Abs(monthly_interest),
              went_negative |-> TRUE,
              first_negative_month |->
                  IF ~went_negative THEN idx + 1 ELSE first_negative_month,
              exhausted_credit |-> ExceedsCredit(owed, available_credit)]
    ELSE [balance |-> b,
          total_interest |-> total_interest,
          went_negative |-> went_negative,
          first_negative_month |-> first_negative_month,
          exhausted_credit |-> FALSE]

\* Mutant of DebtStep: a balance of exactly zero is treated as negative.
DebtStepNonStrict(b, idx) ==
    IF b <= 0
    THEN LET monthly_interest == MonthlyInterest(b, interest_rate)
             owed == b + monthly_interest
         IN  [balance |-> owed,
              total_interest |-> total_interest + Abs(monthly_interest),
              went_negative |-> TRUE,
              first_negative_month |->
                  IF ~went_negative THEN idx + 1 ELSE first_negative_month,
              exhausted_credit |->
                  IF ExceedsCredit(owed, available_credit)
                  THEN TRUE ELSE exhausted_credit]
    ELSE [balance |-> b,
          total_interest |-> total_interest,
          went_negative |-> went_negative,
          first_negative_month |-> first_negative_month,
          exhausted_credit |-> exhausted_credit]

\* Mutant of DebtStep: first_negative_month is assigned in every negative
\* month, not only in the first.
DebtStepOverwriting(b, idx) ==
    IF b < 0
    THEN LET monthly_interest == MonthlyInterest(b, interest_rate)
             owed == b + monthly_interest
         IN  [balance |-> owed,
              total_interest |-> total_interest + Abs(monthly_interest),
              went_negative |-> TRUE,
              first_negative_month |-> idx + 1,
              exhausted_credit |->
                  IF ExceedsCredit(owed, available_credit)
                  THEN TRUE ELSE exhausted_credit]
    ELSE [balance |-> b,
          total_interest |-> total_interest,
          went_negative |-> went_negative,
          first_negative_month |-> first_negative_month,
          exhausted_credit |-> exhausted_credit]

\* Mutant of DebtStep: the credit line is tested only in the months after the
\* one in which the balance first went negative.
DebtStepLate(b, idx) ==
    IF b < 0
    THEN LET monthly_interest == MonthlyInterest(b, interest_rate)
             owed == b + monthly_interest
         IN  [balance |-> owed,
              total_interest |-> total_interest + Abs(monthly_interest),
              went_negative |-> TRUE,
              first_negative_month |->
                  IF ~went_negative THEN idx + 1 ELSE first_negative_month,
              exhausted_credit |->
                  IF went_negative /\ ExceedsCredit(owed, available_credit)
                  THEN TRUE ELSE exhausted_credit]
    ELSE [balance |-> b,
          total_interest |-> total_interest,
          went_negative |-> went_negative,
          first_negative_month |-> first_negative_month,
          exhausted_credit |-> exhausted_credit]

\* The full-horizon month body from balance b after the month's savings:
\* what becomes of balance, total_interest, went_negative,
\* first_negative_month and exhausted_credit.
DebtStep(b, idx) ==
    IF b < 0
    THEN LET monthly_interest == MonthlyInterest(b, interest_rate)
             owed == b + monthly_interest
         IN  [balance |-> owed,
              total_interest |-> total_interest + Abs(monthly_interest),
              went_negative |-> TRUE,
              first_negative_month |->
                  IF ~went_negative THEN idx + 1 ELSE first_negative_month,
              exhausted_credit |->
                  IF ExceedsCredit(owed, available_credit)
                  THEN TRUE ELSE exhausted_credit]
    ELSE [balance |-> b,
          total_interest |-> total_interest,
          went_negative |-> went_negative,
          first_negative_month |-> first_negative_month,
          exhausted_credit |-> exhausted_credit]

\* Mutant of Breaks: the full-horizon loop also stops at a negative balance.
BreaksEverywhere(k, b) == b < 0

\* Mutant of Breaks: no loop stops at a negative balance.
BreaksNowhere(k, b) == FALSE

\* Whether the month loop of function k is left after a month that ends with
\* balance b: the stop-on-negative loops break, the full-horizon loop has no break.
Breaks(k, b) == k \in {"cbr", "rra"} /\ b < 0

\* The call that returned last, as the caller remembers it.
LastCall ==
    IF kind = "none" THEN prev
    ELSE [kind |-> kind, seed |-> seed, n_simulations |-> n_simulations,
          given |-> given, trajectories |-> trajectories, result |-> result]

\* The state before the first call, but for env and calls_left.
Start ==
    /\ rng \in RngStates
    /\ pc = "idle"
    /\ kind = "none" /\ seed = None /\ n_simulations = 0 /\ given = FALSE
    /\ i = 0
    /\ income_trajectory = <<>> /\ month_idx = 0 /\ balance = 0
    /\ monthly_balances = <<>> /\ went_negative = FALSE
    /\ first_negative_month = None /\ exhausted_credit = FALSE
    /\ total_interest = 0
    /\ credit_exhaustion_tracker = <<>> /\ all_paths = <<>>
    /\ terminal_values = <<>> /\ min_balances = <<>> /\ ever_negative = <<>>
    /\ months_to_negative = <<>> /\ credit_exhausted = <<>>
    /\ total_interest_paid_list = <<>> /\ sample_indices = <<>>
    /\ sample_paths = <<>> /\ debt_trials = 0 /\ final_balances = <<>>
    /\ trajectories = <<>>
    /\ result = <<>>
    /\ prev = NoCall

\* One call, of any function, for any household.
Init == Start /\ env \in Envs /\ calls_left = 1 /\ raw_data = <<>> /\ group = <<>>

\* Two calls in a row for the same household.
InitRepeat ==
    Start /\ env \in RepeatEnvs /\ calls_left = 2 /\ raw_data = <<>> /\ group = <<>>

\* Two direct calls of simulate_trajectory in a row.
InitTraj ==
    Start /\ env \in TrajEnvs /\ calls_left = 2 /\ raw_data = <<>> /\ group = <<>>

\* The entry of a Monte Carlo call: the seeding and the empty accumulators.
Enter(k, sd, n, g, r) ==
    /\ pc = "idle"
    /\ calls_left > 0
    /\ kind' = k /\ seed' = sd /\ n_simulations' = n /\ given' = g
    /\ rng' = r
    /\ i' = 0
    /\ terminal_values' = <<>> /\ min_balances' = <<>> /\ ever_negative' = <<>>
    /\ months_to_negative' = <<>> /\ credit_exhausted' = <<>>
    /\ total_interest_paid_list' = <<>> /\ sample_paths' = <<>>
    /\ debt_trials' = 0 /\ final_balances' = <<>>
    /\ trajectories' = <<>>
    /\ pc' = "loop"
    /\ prev' = LastCall
    /\ UNCHANGED <<env, dataVars, calls_left, trialVars, result>>

\* RiskEngine.simulate_financial_outcomes, up to the trial loop.
CallSimulateFinancialOutcomes(sd, n) ==
    LET r0 == EntrySeed(sd, rng)
        ch == NpChoice(r0, n, Min(env.n_sample_paths, n))
    IN  /\ Enter("sfo", sd, n, FALSE, ch.rng)
        /\ sample_indices' = ch.value
        /\ all_paths' = [t \in 1..n |-> [m \in 1..(env.n_months + 1) |-> 0]]
        /\ credit_exhaustion_tracker' =
               [t \in 1..n |-> [m \in 1..(env.n_months + 1) |-> FALSE]]

\* RiskEngine.calculate_bankruptcy_risk (backend/package), up to the trial loop.
CallCalculateBankruptcyRisk(sd, n) ==
    /\ Enter("cbr", sd, n, FALSE, EntrySeed(sd, rng))
    /\ UNCHANGED <<sample_indices, all_paths, credit_exhaustion_tracker>>

\* RiskEngine.run_risk_assessment (data_analysis), up to the trial loop.
CallRunRiskAssessment(sd, n, g) ==
    /\ Enter("rra", sd, n, g, EntrySeed(sd, rng))
    /\ UNCHANGED <<sample_indices, all_paths, credit_exhaustion_tracker>>

\* The trajectory of trial i: [income, rng].
TrialTrajectory ==
    CASE kind = "sfo" ->
           simulate_trajectory(rng, env.initial_income, env.n_months, env.params,
                               TrialSeed(seed, i))
      [] kind = "cbr" ->
           package_simulate_trajectory(rng, env.initial_income, env.n_months,
                                       env.params, TrialSeed(seed, i))
      [] kind = "rra" ->
           LET d == NpLognormal(rng, env.params.initial_income_median, 500)
               drawn == ~given
               initial_income == IF drawn THEN d.value ELSE env.initial_income
           IN  Simulation_simulate_trajectory(IF drawn THEN d.rng ELSE rng,
                   initial_income, env.n_months, env.params, TrialSeed(seed, i))

\* The head of the trial loop: the trajectory and the trial's fresh locals.
TrialStart ==
    /\ pc = "loop"
    /\ i < n_simulations
    /\ LET t == TrialTrajectory
       IN  /\ income_trajectory' = t.income
           /\ rng' = t.rng
           /\ trajectories' = Append(trajectories, t.income)
    /\ balance' = env.initial_fund
    /\ monthly_balances' = <<env.initial_fund>>
    /\ went_negative' = FALSE
    /\ first_negative_month' = None
    /\ exhausted_credit' = FALSE
    /\ total_interest' = 0
    /\ month_idx' = 0
    /\ credit_exhaustion_tracker' =
           IF kind = "sfo"
           THEN [credit_exhaustion_tracker EXCEPT ![i + 1][1] = FALSE]
           ELSE credit_exhaustion_tracker
    /\ pc' = "month"
    /\ UNCHANGED <<env, dataVars, calls_left, callVars, i, all_paths, terminal_values,
                   min_balances, ever_negative, months_to_negative,
                   credit_exhausted, total_interest_paid_list, sample_indices,
                   sample_paths, debt_trials, final_balances, result, prev>>

\* Mutant of TrackExhaustion: the flag is written at index month_idx instead
\* of month_idx + 1.
TrackExhaustionOffByOne(tracker, trial, idx, exhausted) ==
    [tracker EXCEPT ![trial + 1][idx + 1] = exhausted]

\* credit_exhaustion_tracker[i, month_idx + 1] = exhausted_credit
TrackExhaustion(tracker, trial, idx, exhausted) ==
    [tracker EXCEPT ![trial + 1][idx + 2] = exhausted]

\* One iteration of the full-horizon month loop.
MonthStep ==
    /\ pc = "month"
    /\ kind = "sfo"
    /\ month_idx < Len(income_trajectory)
    /\ LET month_income == income_trajectory[month_idx + 1]
           monthly_savings == month_income - env.monthly_expenses
           d == DebtStep(balance + monthly_savings, month_idx)
       IN  /\ balance' = d.balance
           /\ total_interest' = d.total_interest
           /\ went_negative' = d.went_negative
           /\ first_negative_month' = d.first_negative_month
           /\ exhausted_credit' = d.exhausted_credit
           /\ monthly_balances' = Append(monthly_balances, d.balance)
           /\ credit_exhaustion_tracker' =
                  TrackExhaustion(credit_exhaustion_tracker, i, month_idx,
                                  d.exhausted_credit)
    /\ month_idx' = month_idx + 1
    /\ pc' = IF Breaks(kind, balance') \/ month_idx + 1 >= Len(income_trajectory)
             THEN "trial_end" ELSE "month"
    /\ UNCHANGED <<rng, env, dataVars, calls_left, callVars, i, income_trajectory,
                   all_paths, terminal_values, min_balances, ever_negative,
                   months_to_negative, credit_exhausted,
                   total_interest_paid_list, sample_indices, sample_paths,
                   debt_trials, final_balances, trajectories, result, prev>>

\* One iteration of the stop-on-negative month loop.
MonthStepStop ==
    /\ pc = "month"
    /\ kind \in {"cbr", "rra"}
    /\ month_idx < Len(income_trajectory)
    /\ LET month_income == income_trajectory[month_idx + 1]
           monthly_savings == month_income - env.monthly_expenses
           b == balance + monthly_savings
       IN  /\ balance' = b
           /\ monthly_balances' = Append(monthly_balances, b)
           /\ debt_trials' = IF Breaks(kind, b) THEN debt_trials + 1 ELSE debt_trials
           /\ pc' = IF Breaks(kind, b) \/ month_idx + 1 >= Len(income_trajectory)
                    THEN "trial_end" ELSE "month"
    /\ month_idx' = month_idx + 1
    /\ UNCHANGED <<rng, env, dataVars, calls_left, callVars, i, income_trajectory,
                   went_negative, first_negative_month, exhausted_credit,
                   total_interest, credit_exhaustion_tracker, all_paths,
                   terminal_values, min_balances, ever_negative,
                   months_to_negative, credit_exhausted,
                   total_interest_paid_list, sample_indices, sample_paths,
                   final_balances, trajectories, result, prev>>

\* Mutant of RecordMonthsToNegative: first_negative_month is recorded for every
\* trial, None for those that never went negative.
RecordMonthsAlways(months, went, first) == Append(months, first)

\* if went_negative: months_to_negative.append(first_negative_month)
RecordMonthsToNegative(months, went, first) ==
    IF went THEN Append(months, first) ELSE months

\* Mutant of StorePath: the rows of all_paths share the list of the trial that
\* is stored.
StorePathShared(paths, trial, path) == [t \in 1..Len(paths) |-> path]

\* all_paths[i] = monthly_balances: the balances are copied into row i.
StorePath(paths, trial, path) == [paths EXCEPT ![trial + 1] = path]

\* The tail of the full-horizon trial loop.
TrialEnd ==
    /\ pc = "trial_end"
    /\ kind = "sfo"
    /\ all_paths' = StorePath(all_paths, i, monthly_balances)
    /\ terminal_values' = Append(terminal_values, balance)
    /\ min_balances' = Append(min_balances, SeqMin(monthly_balances))
    /\ ever_negative' = Append(ever_negative, went_negative)
    /\ credit_exhausted' = Append(credit_exhausted, exhausted_credit)
    /\ total_interest_paid_list' = Append(total_interest_paid_list, total_interest)
    /\ months_to_negative' =
           RecordMonthsToNegative(months_to_negative, went_negative,
                                  first_negative_month)
    /\ sample_paths' =
           IF \E k \in 1..Len(sample_indices) : sample_indices[k] = i
           THEN Append(sample_paths, monthly_balances) ELSE sample_paths
    /\ i' = i + 1
    /\ pc' = "loop"
    /\ UNCHANGED <<rng, env, dataVars, calls_left, callVars, trialVars,
                   credit_exhaustion_tracker, sample_indices, debt_trials,
                   final_balances, trajectories, result, prev>>

\* The tail of the stop-on-negative trial loop.
TrialEndStop ==
    /\ pc = "trial_end"
    /\ kind \in {"cbr", "rra"}
    /\ min_balances' = Append(min_balances, SeqMin(monthly_balances))
    /\ final_balances' = Append(final_balances, balance)
    /\ i' = i + 1
    /\ pc' = "loop"
    /\ UNCHANGED <<rng, env, dataVars, calls_left, callVars, trialVars,
                   credit_exhaustion_tracker, all_paths, terminal_values,
                   ever_negative, months_to_negative, credit_exhausted,
                   total_interest_paid_list, sample_indices, sample_paths,
                   debt_trials, trajectories, result, prev>>

\* ---------------------------------------------------------------- results

\* The mean and the seven percentiles of s.
Summary(s) ==
    [mean |-> Mean(s), p5 |-> Percentile(s, 5), p10 |-> Percentile(s, 10),
     p25 |-> Percentile(s, 25), p50 |-> Percentile(s, 50),
     p75 |-> Percentile(s, 75), p90 |-> Percentile(s, 90),
     p95 |-> Percentile(s, 95)]

\* How many entries of the Boolean or numeric sequence s satisfy the test.
CountTrue(s) == Cardinality({k \in 1..Len(s) : s[k]})

CountNegative(s) == Cardinality({k \in 1..Len(s) : s[k] < 0})

\* Mutant of PositiveCount: a balance of exactly zero is not counted.
PositiveCountStrict(paths, m) == Cardinality({t \in 1..Len(paths) : paths[t][m] > 0})

\* sum(1 for path in all_paths if path[month] >= 0), month m - 1
PositiveCount(paths, m) == Cardinality({t \in 1..Len(paths) : paths[t][m] >= 0})

\* Mutant of EmergencyFundMonths: the division is not guarded, and dividing by
\* zero raises instead of yielding a value.
EmergencyFundMonthsUnguarded ==
    IF env.monthly_expenses # 0
    THEN [inf |-> FALSE, value |-> Quot(env.initial_fund * 100, env.monthly_expenses)]
    ELSE [inf |-> FALSE, value |-> 0, raised |-> TRUE]

\* initial_fund / monthly_expenses if monthly_expenses > 0 else float('inf'),
\* the quotient in hundredths of a month.
EmergencyFundMonths ==
    IF env.monthly_expenses > 0
    THEN [inf |-> FALSE, value |-> Quot(env.initial_fund * 100, env.monthly_expenses)]
    ELSE [inf |-> TRUE, value |-> 0]

\* The dictionary simulate_financial_outcomes returns.
FinancialOutcomes ==
    LET months == 1..(env.n_months + 1)
    IN  [samplePaths |-> sample_paths,
         terminalValues |-> terminal_values,
         aggregateStats |->
             [months |-> [m \in months |-> m - 1],
              stats |-> [m \in months |-> Summary(Column(all_paths, m))]],
         statistics |->
             [terminalStats |-> Summary(terminal_values),
              median |-> Percentile(terminal_values, 50),
              std |-> Std(terminal_values),
              negativeTerminalPct |-> Pct(CountNegative(terminal_values), n_simulations),
              everNegativePct |-> Pct(CountTrue(ever_negative), n_simulations),
              creditExhaustionPct |-> Pct(CountTrue(credit_exhausted), n_simulations),
              medianMinBalance |-> Percentile(min_balances, 50),
              meanMinBalance |-> Mean(min_balances),
              medianInterestPaid |-> Percentile(total_interest_paid_list, 50),
              meanInterestPaid |-> Mean(total_interest_paid_list),
              medianMonthsToNegative |->
                  IF months_to_negative # <<>>
                  THEN Percentile(months_to_negative, 50) ELSE None],
         riskMetrics |->
             [probabilityPositiveByMonth |->
                  [m \in months |->
                      Pct(PositiveCount(all_paths, m), n_simulations)],
              probabilityAboveCreditByMonth |->
                  [m \in months |->
                      Pct(Cardinality({t \in 1..n_simulations :
                                          ~credit_exhaustion_tracker[t][m]}),
                          n_simulations)],
              emergencyFundMonths |-> EmergencyFundMonths,
              monthlyNetIncome |-> env.initial_income - env.monthly_expenses],
         metadata |->
             [nSimulations |-> n_simulations,
              nMonths |-> env.n_months,
              nSamplePaths |-> Len(sample_paths),
              initialFund |-> env.initial_fund,
              monthlyExpenses |-> env.monthly_expenses,
              initialIncome |-> env.initial_income,
              availableCredit |-> available_credit,
              interestRate |-> interest_rate]]

\* The dictionary calculate_bankruptcy_risk and run_risk_assessment return.
BankruptcyRisk ==
    [debt_probability |-> Pct(debt_trials, n_simulations),
     mean_min_balance |-> Mean(min_balances),
     mean_final_balance |-> Mean(final_balances),
     median_min_balance |-> Percentile(min_balances, 50),
     median_final_balance |-> Percentile(final_balances, 50)]

\* The trial loop is over: the aggregation and the return.
Return ==
    /\ pc = "loop"
    /\ i >= n_simulations
    /\ result' = IF kind = "sfo" THEN FinancialOutcomes ELSE BankruptcyRisk
    /\ calls_left' = calls_left - 1
    /\ pc' = IF calls_left > 1 THEN "idle" ELSE "done"
    /\ UNCHANGED <<rng, env, dataVars, callVars, i, trialVars, accVars, trajectories, prev>>

\* A direct call of one of the simulate_trajectory functions.
CallSimulateTrajectory(k, sd) ==
    /\ pc = "idle"
    /\ calls_left > 0
    /\ LET t == CASE k = "backend" ->
                       simulate_trajectory(rng, env.initial_income, env.n_months,
                                           env.params, sd)
                  [] k = "package" ->
                       package_simulate_trajectory(rng, env.initial_income,
                                                   env.n_months, env.params, sd)
                  [] k = "simulation" ->
                       Simulation_simulate_trajectory(rng, env.initial_income,
                                                      env.n_months, env.params, sd)
                  [] k = "ar1" ->
                       AR1Model_simulate_trajectory(rng, env.initial_income,
                                                    env.n_months, env.params, sd)
       IN  /\ result' = t.income
           /\ rng' = t.rng
    /\ kind' = k /\ seed' = sd
    /\ prev' = LastCall
    /\ calls_left' = calls_left - 1
    /\ pc' = IF calls_left > 1 THEN "idle" ELSE "done"
    /\ UNCHANGED <<env, dataVars, n_simulations, given, i, trialVars, accVars, trajectories>>

\* A call of a function of the analysis that returns res, for the column g.
DataCall(k, res, g) ==
    /\ pc = "idle"
    /\ calls_left > 0
    /\ kind' = k
    /\ result' = res
    /\ group' = g
    /\ prev' = LastCall
    /\ calls_left' = calls_left - 1
    /\ pc' = IF calls_left > 1 THEN "idle" ELSE "done"
    /\ UNCHANGED <<rng, env, raw_data, seed, n_simulations, given, i, trialVars,
                   accVars, trajectories>>

\* Simulation.estimate_model_parameters(raw_data)
CallEstimateModelParameters ==
    DataCall("emp", estimate_model_parameters(raw_data), group)

\* AR1Model.estimate_ar1_parameters(raw_data)
CallEstimateAR1Parameters ==
    DataCall("ar1p", estimate_ar1_parameters(raw_data), group)

\* Statistics.calc_household_stats for household h of the panel, as groupby
\* applies it.
CallCalcHouseholdStats(h, constant_is_nan) ==
    /\ h \in 1..Len(raw_data)
    /\ DataCall("chs", calc_household_stats(raw_data[h], constant_is_nan), raw_data[h])

\* Simulation.calc_validation_stats for the incomes of household h as trajectory.
CallCalcValidationStats(h, constant_is_nan) ==
    /\ h \in 1..Len(raw_data)
    /\ DataCall("cvs", calc_validation_stats(raw_data[h], constant_is_nan), raw_data[h])

Next ==
    \/ \E sd \in Seeds, n \in 1..MaxSims : CallSimulateFinancialOutcomes(sd, n)
    \/ \E sd \in Seeds, n \in 1..MaxSims : CallCalculateBankruptcyRisk(sd, n)
    \/ \E sd \in Seeds, n \in 1..MaxSims, g \in BOOLEAN : CallRunRiskAssessment(sd, n, g)
    \/ \E k \in {"backend", "package", "simulation", "ar1"}, sd \in Seeds :
           CallSimulateTrajectory(k, sd)
    \/ TrialStart
    \/ MonthStep
    \/ MonthStepStop
    \/ TrialEnd
    \/ TrialEndStop
    \/ Return

Spec == Init /\ [][Next]_vars

\* The seeds of the runs that call twice: one more, so that two seeds other
\* than 0 select different trials as sample.
RepeatSeeds == Seeds \cup {3}

\* Two Monte Carlo calls in a row.
NextRepeat ==
    \/ \E sd \in RepeatSeeds, n \in 1..MaxSims : CallSimulateFinancialOutcomes(sd, n)
    \/ \E sd \in RepeatSeeds, n \in 1..MaxSims : CallCalculateBankruptcyRisk(sd, n)
    \/ TrialStart
    \/ MonthStep
    \/ MonthStepStop
    \/ TrialEnd
    \/ TrialEndStop
    \/ Return

SpecRepeat == InitRepeat /\ [][NextRepeat]_vars

\* Two direct calls of simulate_trajectory in a row.
NextTraj ==
    \E k \in {"backend", "package", "simulation", "ar1"}, sd \in Seeds :
        CallSimulateTrajectory(k, sd)

SpecTraj == InitTraj /\ [][NextTraj]_vars

\* One call of an estimator or of the statistics for a panel.
InitData ==
    /\ Start /\ rng = NpSeed(0)
    /\ env \in DataEnvs /\ calls_left = 1
    /\ raw_data \in Panels /\ group = <<>>

NextData ==
    \/ CallEstimateModelParameters
    \/ CallEstimateAR1Parameters
    \/ \E h \in 1..2, constant_is_nan \in BOOLEAN :
           CallCalcHouseholdStats(h, constant_is_nan)
    \/ \E h \in 1..2, constant_is_nan \in BOOLEAN :
           CallCalcValidationStats(h, constant_is_nan)

SpecData == InitData /\ [][NextData]_vars

\* A call of Simulation.run_simulations, which has no seed argument.
CallRunSimulations(n) ==
    /\ pc = "idle"
    /\ calls_left > 0
    /\ LET t == run_simulations(rng, n, env.n_months, env.params)
       IN  /\ result' = t.simulated_trajectories
           /\ trajectories' = t.simulated_trajectories
           /\ rng' = t.rng
    /\ kind' = "rs" /\ seed' = None /\ n_simulations' = n /\ given' = FALSE
    /\ prev' = LastCall
    /\ calls_left' = calls_left - 1
    /\ pc' = IF calls_left > 1 THEN "idle" ELSE "done"
    /\ UNCHANGED <<env, dataVars, i, trialVars, accVars>>

\* Two calls in a row of the functions that draw the initial income of every
\* trial.
NextIncome ==
    \/ \E n \in 1..MaxSims : CallRunSimulations(n)
    \/ \E sd \in RepeatSeeds, n \in 1..MaxSims : CallRunRiskAssessment(sd, n, FALSE)
    \/ TrialStart
    \/ MonthStepStop
    \/ TrialEndStop
    \/ Return

SpecIncome == InitRepeat /\ [][NextIncome]_vars

\* ---------------------------------------------------------------- properties

\* The months of the current trial that the month loop has processed.
Processed == Len(monthly_balances) - 1

\* The first month (1-based) whose recorded balance is negative, 0 if none.
FirstNegative(path) ==
    IF \E m \in 2..Len(path) : path[m] < 0
    THEN (CHOOSE m \in 2..Len(path) :
              path[m] < 0 /\ \A k \in 2..(m - 1) : path[k] >= 0) - 1
    ELSE 0

\* C1: in simulate_financial_outcomes every trial's balance path has
\* n_months + 1 entries when its month loop is over, whatever the sign of the
\* balance and whether or not credit was exhausted: the loop is left only
\* after month n_months, and every stored path and sample path is complete.
C1_FullHorizonLength ==
    kind = "sfo" =>
        /\ pc = "month" => Len(monthly_balances) = month_idx + 1
                           /\ month_idx < env.n_months
        /\ pc = "trial_end" => Len(monthly_balances) = env.n_months + 1
                               /\ month_idx = env.n_months
        /\ \A t \in 1..Len(terminal_values) : Len(all_paths[t]) = env.n_months + 1
        /\ \A t \in 1..Len(sample_paths) : Len(sample_paths[t]) = env.n_months + 1

\* A full-horizon trial that went negative and exhausted its credit before
\* the last month, and ran to the end.
C1_Witness ==
    /\ kind = "sfo" /\ pc = "trial_end"
    /\ exhausted_credit
    /\ first_negative_month # None /\ first_negative_month < env.n_months
    /\ Len(monthly_balances) = env.n_months + 1

\* C2: in calculate_bankruptcy_risk and run_risk_assessment the month loop
\* halts in the month in which the balance becomes negative: while the loop
\* runs no recorded balance of months 1.. is negative, and when it is over a
\* path with a negative balance has first_negative_month + 1 entries and
\* month_idx stands at first_negative_month.
C2_StopOnNegative ==
    kind \in {"cbr", "rra"} =>
        /\ pc = "month" => FirstNegative(monthly_balances) = 0
        /\ pc = "trial_end" /\ FirstNegative(monthly_balances) > 0 =>
               /\ Len(monthly_balances) = FirstNegative(monthly_balances) + 1
               /\ month_idx = FirstNegative(monthly_balances)
               /\ balance < 0

\* A stop-on-negative trial that halted before the end of its trajectory.
C2_Witness ==
    /\ kind \in {"cbr", "rra"} /\ pc = "trial_end"
    /\ FirstNegative(monthly_balances) >= 2
    /\ FirstNegative(monthly_balances) < Len(income_trajectory)

\* The row of credit_exhaustion_tracker of trial t (1-based) up to the months
\* that have been written.
Written(t) ==
    IF t <= Len(terminal_values) THEN env.n_months + 1
    ELSE IF t = i + 1 /\ pc \in {"month", "trial_end"} THEN Processed + 1
    ELSE 1

\* C3: for every trial of simulate_financial_outcomes the per-month
\* credit-exhaustion indicator is false at month 0 and, once true at a month,
\* true at every later month of the trial.
C3_ExhaustionMonotone ==
    kind = "sfo" =>
        \A t \in 1..Len(credit_exhaustion_tracker) :
            /\ ~credit_exhaustion_tracker[t][1]
            /\ \A m \in 1..Written(t) : \A m2 \in m..Written(t) :
                   credit_exhaustion_tracker[t][m] => credit_exhaustion_tracker[t][m2]

\* A trial whose indicator is true although its balance is back above
\* -available_credit.
C3_Witness ==
    /\ kind = "sfo" /\ pc = "trial_end"
    /\ \E m \in 2..env.n_months :
           /\ credit_exhaustion_tracker[i + 1][m]
           /\ credit_exhaustion_tracker[i + 1][env.n_months + 1]
           /\ monthly_balances[m] < -available_credit
    /\ balance >= -available_credit

\* The interest of a month that ends its savings at balance b, computed from
\* the claim's formula b * (interest_rate / 12).
ClaimedInterest(b) == IF b < 0 THEN -(((-b) * interest_rate) \div 1200) ELSE 0

\* The balance of month m (1-based) before interest.
BeforeInterest(m) ==
    monthly_balances[m] + income_trajectory[m] - env.monthly_expenses

\* C4: in simulate_financial_outcomes each recorded balance is the previous
\* one plus income minus expenses, plus the interest b' * (interest_rate / 12)
\* when that sum b' is negative (so the recorded balance is <= b'), and the
\* cumulative interest is the sum of the absolute interests of the negative
\* months only.
C4_BalanceRecurrence ==
    kind = "sfo" /\ pc \in {"month", "trial_end"} =>
        /\ \A m \in 1..Processed :
               /\ monthly_balances[m + 1] =
                      BeforeInterest(m) + ClaimedInterest(BeforeInterest(m))
               /\ monthly_balances[m + 1] <= BeforeInterest(m)
               /\ BeforeInterest(m) >= 0 => monthly_balances[m + 1] = BeforeInterest(m)
        /\ total_interest =
               SeqSum([m \in 1..Processed |-> Abs(ClaimedInterest(BeforeInterest(m)))])
        /\ balance = monthly_balances[Len(monthly_balances)]

\* A trial with a month that accrued interest and a later month that accrued none.
C4_Witness ==
    /\ kind = "sfo" /\ pc = "trial_end"
    /\ \E m \in 1..Processed : \E m2 \in (m + 1)..Processed :
           /\ BeforeInterest(m) < 0 /\ monthly_balances[m + 1] < BeforeInterest(m)
           /\ BeforeInterest(m2) >= 0
    /\ total_interest > 0

\* C5: with available_credit = 0 and interest_rate = 0 the credit-exhausted
\* flag of a simulate_financial_outcomes trial becomes true in exactly the
\* month in which the balance first goes negative, and the result's
\* creditExhaustionPct equals its everNegativePct.
C5_ZeroCredit ==
    kind = "sfo" /\ available_credit = 0 /\ interest_rate = 0 =>
        /\ pc \in {"month", "trial_end"} =>
               /\ exhausted_credit = went_negative
               /\ \A m \in 1..(Processed + 1) :
                      credit_exhaustion_tracker[i + 1][m] =
                          (FirstNegative(monthly_balances) # 0
                           /\ m - 1 >= FirstNegative(monthly_balances))
               /\ went_negative => first_negative_month = FirstNegative(monthly_balances)
        /\ pc = "done" =>
               result.statistics.creditExhaustionPct = result.statistics.everNegativePct

\* A run with zero credit and zero interest in which some trial, but not
\* every trial, went negative, after its first month.
C5_Witness ==
    /\ kind = "sfo" /\ available_credit = 0 /\ interest_rate = 0
    /\ pc = "done"
    /\ result.statistics.everNegativePct > 0
    /\ result.statistics.everNegativePct < 10000
    /\ \E t \in 1..Len(months_to_negative) : months_to_negative[t] > 1

\* The functions that run trials, and the jump-model simulate_trajectory copies.
MonteCarlo == {"sfo", "cbr", "rra"}

JumpCalls == {"backend", "package", "simulation"}

\* C6: two calls of simulate_financial_outcomes with the same supplied seed
\* (0 included) and the same arguments return the same result in every field,
\* sample paths included, whatever state the generator was in before each.
C6_Reproducible ==
    /\ pc = "done"
    /\ kind = "sfo" /\ prev.kind = "sfo"
    /\ seed # None /\ prev.seed = seed
    /\ prev.n_simulations = n_simulations
    => result = prev.result

\* Two calls with seed 0 and the largest number of trials, whose trials differ
\* from each other.
C6_Witness ==
    /\ pc = "done"
    /\ kind = "sfo" /\ prev.kind = "sfo"
    /\ seed = 0 /\ prev.seed = 0
    /\ n_simulations = MaxSims /\ prev.n_simulations = MaxSims
    /\ result.terminalValues[1] # result.terminalValues[2]
    /\ Len(result.samplePaths) = 1

\* C7: whenever a seed is supplied to simulate_financial_outcomes or
\* calculate_bankruptcy_risk, the trajectory of trial i is that of a stream
\* seeded with i: it is the same in every such call, whatever the seed, the
\* number of trials and the draws of the other trials and of the sample
\* selection.
C7_TrialStreams ==
    /\ kind \in {"sfo", "cbr"} /\ prev.kind \in {"sfo", "cbr"}
    /\ seed # None /\ prev.seed # None
    => \A t \in 1..Min(Len(trajectories), Len(prev.trajectories)) :
           trajectories[t] = prev.trajectories[t]

\* C8: two calls of simulate_trajectory (each jump-model copy and the AR(1)
\* model) with the same arguments and the same seed, None excluded, return
\* the same sequence, whatever state the generator was in before each.
C8_TrajectoryReproducible ==
    /\ pc = "done"
    /\ kind \in JumpCalls \cup {"ar1"} /\ prev.kind = kind
    /\ seed # None /\ prev.seed = seed
    => result = prev.result

\* Two AR(1) calls with seed 0 that return a path that moves.
C8_Witness ==
    /\ pc = "done"
    /\ kind = "ar1" /\ prev.kind = "ar1"
    /\ seed = 0 /\ prev.seed = 0
    /\ env.n_months = MaxMonths
    /\ result[2] # result[1]
    /\ \E t \in 1..Len(result) : result[t] > 100

\* The trajectory the state holds: the one a direct call returned, or the one
\* of the current trial; empty when there is none.
Trajectory ==
    IF pc = "done" /\ kind \in JumpCalls \cup {"ar1"} THEN result
    ELSE IF kind \in MonteCarlo /\ pc \in {"month", "trial_end"} THEN income_trajectory
    ELSE <<>>

\* C9 as claimed: every element of every trajectory, element 0 included, is
\* at least 100.
C9_AllAtLeastFloor == \A t \in 1..Len(Trajectory) : Trajectory[t] >= 100

\* C9 as amended: every element of an AR(1) trajectory is at least 100, and
\* every element of a jump-model trajectory is at least the smaller of 100 and
\* the initial income (element 0 is the initial income itself).
C9_FloorOrInitial ==
    \A t \in 1..Len(Trajectory) :
        IF kind = "ar1" THEN Trajectory[t] >= 100
        ELSE Trajectory[t] >= Min(100, Trajectory[1])

\* A jump-model trajectory that starts below 100 and is floored at 100 by a
\* downward jump.
C9_Witness ==
    /\ pc = "done" /\ kind \in JumpCalls
    /\ env.initial_income < 100
    /\ result[1] = env.initial_income
    /\ \E t \in 2..Len(result) : result[t] = 100

\* C10: a jump-model trajectory has exactly n_months elements and its element
\* 0 is the initial income, unaltered.
C10_LengthAndStart ==
    /\ pc = "done" /\ kind \in JumpCalls =>
           Len(result) = env.n_months /\ result[1] = env.initial_income
    /\ kind \in MonteCarlo /\ pc \in {"month", "trial_end"} =>
           /\ Len(income_trajectory) = env.n_months
           /\ kind # "rra" \/ given => income_trajectory[1] = env.initial_income

\* A direct call with an initial income below the floor and jumps in later
\* months.
C10_Witness ==
    /\ pc = "done" /\ kind = "backend"
    /\ env.initial_income < 100
    /\ env.n_months = MaxMonths
    /\ result[1] = env.initial_income
    /\ result[MaxMonths] > result[1]

\* C11: in the result of simulate_financial_outcomes for a household whose
\* initial fund is not negative, probabilityPositiveByMonth[0] is 100 percent:
\* every trial's month-0 balance is the initial fund, and zero counts as
\* non-negative.
C11_StartsPositive ==
    pc = "done" /\ kind = "sfo" /\ env.initial_fund >= 0 =>
        /\ result.riskMetrics.probabilityPositiveByMonth[1] = 10000
        /\ \A t \in 1..n_simulations : all_paths[t][1] = env.initial_fund

\* A run of several trials from an initial fund of exactly zero, in which not
\* every trial is positive at the last month.
C11_Witness ==
    /\ pc = "done" /\ kind = "sfo"
    /\ env.initial_fund = 0
    /\ n_simulations = MaxSims
    /\ result.riskMetrics.probabilityPositiveByMonth[1] = 10000
    /\ result.riskMetrics.probabilityPositiveByMonth[env.n_months + 1] < 10000

\* The seven percentiles of a summary are in ascending order.
Ascending(st) ==
    /\ st.p5 <= st.p10 /\ st.p10 <= st.p25 /\ st.p25 <= st.p50
    /\ st.p50 <= st.p75 /\ st.p75 <= st.p90 /\ st.p90 <= st.p95

\* C12: in the result of simulate_financial_outcomes the percentiles are
\* ordered p5 <= p10 <= p25 <= p50 <= p75 <= p90 <= p95 at every month index
\* 0..n_months of aggregateStats and in terminalStats.
C12_PercentilesAscending ==
    pc = "done" /\ kind = "sfo" =>
        /\ \A m \in 1..(env.n_months + 1) : Ascending(result.aggregateStats.stats[m])
        /\ Ascending(result.statistics.terminalStats)

\* A run in which an earlier trial ends above a later one, so that the
\* percentiles differ and the trials are not in ascending order.
C12_Witness ==
    /\ pc = "done" /\ kind = "sfo"
    /\ n_simulations = MaxSims
    /\ terminal_values[1] > terminal_values[2]
    /\ result.statistics.terminalStats.p5 < result.statistics.terminalStats.p95
    /\ \E m \in 2..(env.n_months + 1) :
           result.aggregateStats.stats[m].p25 < result.aggregateStats.stats[m].p75

ResultKeys ==
    {"samplePaths", "terminalValues", "aggregateStats", "statistics",
     "riskMetrics", "metadata"}

\* C14: simulate_financial_outcomes returns its whole result also when
\* monthly_expenses = 0; emergencyFundMonths is then infinite, and for
\* monthly_expenses > 0 it is the finite quotient initial_fund /
\* monthly_expenses (to the hundredth of a month).
C14_EmergencyFundMonths ==
    pc = "done" /\ kind = "sfo" =>
        LET months == result.riskMetrics.emergencyFundMonths
        IN  /\ DOMAIN result = ResultKeys
            /\ Len(result.terminalValues) = n_simulations
            /\ env.monthly_expenses = 0 => months.inf
            /\ env.monthly_expenses > 0 =>
                   /\ ~months.inf
                   /\ Abs(100 * env.initial_fund - months.value * env.monthly_expenses)
                          < env.monthly_expenses

\* A run for a household without expenses and with savings, over several
\* months and trials.
C14_Witness ==
    /\ pc = "done" /\ kind = "sfo"
    /\ env.monthly_expenses = 0 /\ env.initial_fund > 0
    /\ env.n_months = MaxMonths /\ n_simulations = MaxSims
    /\ result.riskMetrics.emergencyFundMonths.inf
    /\ result.riskMetrics.monthlyNetIncome = env.initial_income

\* The injections of the sample paths into the trials.
SampleOrigins ==
    {f \in [1..Len(sample_paths) -> 1..n_simulations] :
        \A j, k \in 1..Len(sample_paths) : j # k => f[j] # f[k]}

\* C15: samplePaths of simulate_financial_outcomes has min(n_sample_paths,
\* n_simulations) entries, metadata.nSamplePaths is that number, and the
\* entries are the complete n_months + 1 balances of as many distinct trials:
\* those whose index np.random.choice selected.
C15_SamplePaths ==
    pc = "done" /\ kind = "sfo" =>
        /\ Len(result.samplePaths) = Min(env.n_sample_paths, n_simulations)
        /\ result.metadata.nSamplePaths = Min(env.n_sample_paths, n_simulations)
        /\ \A k \in 1..Len(result.samplePaths) :
               /\ Len(result.samplePaths[k]) = env.n_months + 1
               /\ result.samplePaths[k] = all_paths[Sorted(sample_indices)[k] + 1]
        /\ \A j, k \in 1..Len(sample_indices) :
               j # k => sample_indices[j] # sample_indices[k]
        /\ \E f \in SampleOrigins :
               \A k \in 1..Len(sample_paths) : result.samplePaths[k] = all_paths[f[k]]

\* A run asked for more sample paths than it has trials: every trial is
\* returned once, and the paths differ.
C15_Witness ==
    /\ pc = "done" /\ kind = "sfo"
    /\ n_simulations = MaxSims /\ env.n_sample_paths > n_simulations
    /\ Len(result.samplePaths) = MaxSims
    /\ result.samplePaths[1] # result.samplePaths[2]
    /\ sample_indices[1] > sample_indices[2]

\* The first negative months of the paths that have one, in the order of the
\* trials.
RECURSIVE FirstNegatives(_)
FirstNegatives(paths) ==
    IF paths = <<>> THEN <<>>
    ELSE (IF FirstNegative(Head(paths)) > 0
          THEN <<FirstNegative(Head(paths))>> ELSE <<>>)
         \o FirstNegatives(Tail(paths))

\* C16: statistics.medianMonthsToNegative of simulate_financial_outcomes is
\* null exactly when no trial has a negative balance in months 1..n_months;
\* otherwise it is the median of the first negative month of the trials that
\* have one, one value in 1..n_months for each, the other trials contributing
\* nothing.
C16_MedianMonthsToNegative ==
    pc = "done" /\ kind = "sfo" =>
        LET median == result.statistics.medianMonthsToNegative
            firsts == FirstNegatives(all_paths)
        IN  /\ median = None <=> firsts = <<>>
            /\ months_to_negative = firsts
            /\ \A k \in 1..Len(months_to_negative) :
                   months_to_negative[k] \in 1..env.n_months
            /\ Len(months_to_negative) = CountTrue(ever_negative)
            /\ firsts # <<>> =>
                   /\ median = Percentile(firsts, 50)
                   /\ median >= 100 /\ median <= 100 * env.n_months

\* A run in which one trial went negative, after its first month, and another
\* never did.
C16_Witness ==
    /\ pc = "done" /\ kind = "sfo"
    /\ n_simulations = MaxSims
    /\ Len(months_to_negative) = 1
    /\ result.statistics.medianMonthsToNegative > 100
    /\ result.statistics.everNegativePct < 10000

\* The households of a panel with at least `least` positive observations.
RECURSIVE Qualifying(_, _)
Qualifying(data, least) ==
    IF data = <<>> THEN <<>>
    ELSE (IF Len(Positive(Head(data))) >= least THEN <<Head(data)>> ELSE <<>>)
         \o Qualifying(Tail(data), least)

\* The keys of the two parameter sets.
JumpKeys ==
    {"lambda", "jump_median_pct", "jump_q25", "jump_q75", "prob_upward",
     "initial_income_median", "initial_income_iqr"}

AR1Keys ==
    {"rho", "mu", "sigma", "initial_income_median", "initial_income_std",
     "n_households", "n_residuals"}

\* C17: both estimators return a complete parameter set for every panel.  A
\* household with fewer than 2 positive observations changes nothing in the
\* result of estimate_model_parameters, and one with fewer than 6 changes
\* nothing in rho, sigma, mu and the counts of estimate_ar1_parameters: the
\* result is that for the panel without these households.  When no household
\* has that many, the parameters are the defaults: lambda 0.1, jump_median_pct
\* 0.15, jump_q25 0.05, jump_q75 0.25, prob_upward 0.5; rho 0.7, sigma 0.15,
\* mu 8.5.
C17_SkipsAndFallsBack ==
    /\ pc = "done" /\ kind = "emp" =>
           /\ DOMAIN result = JumpKeys
           /\ result = estimate_model_parameters(Qualifying(raw_data, 2))
           /\ Qualifying(raw_data, 2) = <<>> =>
                  /\ result.lambda = 10 /\ result.jump_median_pct = 15
                  /\ result.jump_q25 = 5 /\ result.jump_q75 = 25
                  /\ result.prob_upward = 50
    /\ pc = "done" /\ kind = "ar1p" =>
           LET kept == estimate_ar1_parameters(Qualifying(raw_data, 6))
           IN  /\ DOMAIN result = AR1Keys
               /\ result.rho = kept.rho /\ result.sigma = kept.sigma
               /\ result.mu = kept.mu
               /\ result.n_households = kept.n_households
               /\ result.n_residuals = kept.n_residuals
               /\ Qualifying(raw_data, 6) = <<>> =>
                      result.rho = 70 /\ result.sigma = 150 /\ result.mu = 8500

\* The AR(1) estimator for a panel of two households, one with a single
\* observation and one with three to five changing ones: both are skipped and
\* the defaults are returned.
C17_Witness ==
    /\ pc = "done" /\ kind = "ar1p"
    /\ Len(raw_data) = 2
    /\ Len(Positive(raw_data[1])) \in 3..5
    /\ \E k \in 2..Len(raw_data[1]) : raw_data[1][k] # raw_data[1][1]
    /\ Len(raw_data[2]) = 1
    /\ result.rho = 70 /\ result.sigma = 150 /\ result.mu = 8500
    /\ result.initial_income_median # 5000

\* The households of a panel that estimate_ar1_parameters regresses: those
\* with six positive observations and a lag variance above 1e-6.
RECURSIVE Regressed(_)
Regressed(data) ==
    IF data = <<>> THEN <<>>
    ELSE (IF AR1Household(Head(data)).rhos # <<>> THEN <<Head(data)>> ELSE <<>>)
         \o Regressed(Tail(data))

\* C18: in estimate_ar1_parameters a household with fewer than 6 positive
\* observations or with a lag variance not above 1e-6 contributes to none of
\* rho, sigma and mu (they are those of the panel of the regressed households
\* alone), while its positive observations count in initial_income_median.
C18_ExcludedFromAggregates ==
    pc = "done" /\ kind = "ar1p" =>
        LET regressed == estimate_ar1_parameters(Regressed(raw_data))
        IN  /\ result.rho = regressed.rho
            /\ result.sigma = regressed.sigma
            /\ result.mu = regressed.mu
            /\ AllPositive(raw_data) # <<>> =>
                   result.initial_income_median = Median(AllPositive(raw_data))

\* The percent changes of the column the statistics were computed for, and
\* whether they are not all the same.
GroupChanges == PctChanges(Positive(group))

Varying(s) == \E j, k \in 1..Len(s) : s[j] # s[k]

\* Whether the last call returned statistics.
ReturnedStatistics ==
    /\ pc = "done" /\ kind \in {"chs", "cvs"}
    /\ kind = "cvs" => ~result.is_none

\* C19 as claimed: skewness is NaN exactly when the trajectory has fewer than
\* 3 changes that are not zero, kurtosis exactly when it has fewer than 4.
C19_FewNonzeroChanges ==
    ReturnedStatistics =>
        LET nonzero == Cardinality({k \in 1..Len(GroupChanges) : GroupChanges[k] # 0})
        IN  /\ result.skewness.nan <=> nonzero < 3
            /\ result.kurtosis.nan <=> nonzero < 4

\* C19 as amended: the changes counted are all changes between consecutive
\* positive observations, zero or not.  Skewness is NaN when there are fewer
\* than 3 of them and kurtosis when there are fewer than 4; with that many
\* changes, not all equal, they are numbers.  With two positive observations
\* or more, variance, cv, jump_freq and the fractions of large jumps are
\* numbers whatever skewness and kurtosis are.  calc_validation_stats returns
\* None, and no statistics, exactly for a trajectory of fewer than 2 elements.
C19_FewChanges ==
    /\ ReturnedStatistics =>
           /\ Len(GroupChanges) < 3 => result.skewness.nan
           /\ Len(GroupChanges) < 4 => result.kurtosis.nan
           /\ Len(GroupChanges) >= 3 /\ Varying(GroupChanges) => ~result.skewness.nan
           /\ Len(GroupChanges) >= 4 /\ Varying(GroupChanges) => ~result.kurtosis.nan
           /\ Len(Positive(group)) >= 2 =>
                  /\ ~result.variance.nan /\ ~result.cv.nan /\ ~result.jump_freq.nan
                  /\ ~result.frac_large_jumps_25pct.nan
                  /\ ~result.frac_large_jumps_50pct.nan
    /\ pc = "done" /\ kind = "cvs" => (result.is_none <=> Len(group) < 2)

\* Validation statistics of a trajectory with exactly three changes, one of
\* them not zero: skewness is a number, kurtosis is NaN.
C19_Witness ==
    /\ pc = "done" /\ kind = "cvs"
    /\ ~result.is_none
    /\ Len(GroupChanges) = 3
    /\ Cardinality({k \in 1..3 : GroupChanges[k] # 0}) = 1
    /\ ~result.skewness.nan /\ result.kurtosis.nan
    /\ ~result.cv.nan

\* The trials of the running call that are complete.
Completed ==
    IF pc = "idle" THEN {}
    ELSE IF kind = "sfo" THEN 1..Len(terminal_values)
    ELSE IF kind \in {"cbr", "rra"} THEN 1..Len(final_balances)
    ELSE {}

\* C20: no step of simulate_trajectory, simulate_financial_outcomes or
\* calculate_bankruptcy_risk changes params (nor any other argument), and no
\* step changes what a completed trial left: its trajectory, its balance path
\* and exhaustion row, its terminal and minimum balance, its flags, its
\* interest, and the sample paths and first negative months recorded so far.
C20_ReadOnly ==
    [][ /\ env'.params = env.params
        /\ env' = env
        /\ \A t \in Completed :
               /\ trajectories'[t] = trajectories[t]
               /\ min_balances'[t] = min_balances[t]
               /\ kind = "sfo" =>
                      /\ all_paths'[t] = all_paths[t]
                      /\ credit_exhaustion_tracker'[t] = credit_exhaustion_tracker[t]
                      /\ terminal_values'[t] = terminal_values[t]
                      /\ ever_negative'[t] = ever_negative[t]
                      /\ credit_exhausted'[t] = credit_exhausted[t]
                      /\ total_interest_paid_list'[t] = total_interest_paid_list[t]
               /\ kind # "sfo" => final_balances'[t] = final_balances[t]
        /\ pc # "idle" =>
               /\ \A k \in 1..Len(sample_paths) : sample_paths'[k] = sample_paths[k]
               /\ \A k \in 1..Len(months_to_negative) :
                      months_to_negative'[k] = months_to_negative[k]
      ]_vars

\* A run whose last trial took another path than its first, which is still
\* stored as it was.
C20_Witness ==
    /\ pc = "done" /\ kind = "sfo"
    /\ n_simulations = MaxSims /\ env.n_months = MaxMonths
    /\ env.params.lambda > 0
    /\ trajectories[1] # trajectories[MaxSims]
    /\ all_paths[1] # all_paths[MaxSims]
    /\ all_paths[1][env.n_months + 1] = terminal_values[1]

\* The generator state a jump-model month leaves, from the state s before it,
\* as claimed: the jump draw, and in a jump month the magnitude and the
\* direction draws.
AfterMonth(s) ==
    IF UniformOf(s) < env.params.lambda
    THEN NpRandom(NpLognormal(NpRandom(s).rng, env.params.jump_median_pct,
                              JumpSigma(env.params)).rng).rng
    ELSE NpRandom(s).rng

\* The generator state before month t (t >= 1, element t + 1) of a trajectory
\* whose loop starts from state r.
RECURSIVE StreamAt(_, _)
StreamAt(r, t) == IF t <= 1 THEN r ELSE AfterMonth(StreamAt(r, t - 1))

\* Month t of trajectory income, drawn from state s, is as claimed.
ClaimedMonth(s, income, t) ==
    LET last == income[t]
        cur == income[t + 1]
    IN  IF UniformOf(s) < env.params.lambda
        THEN LET m == NpLognormal(NpRandom(s).rng, env.params.jump_median_pct,
                                  JumpSigma(env.params))
                 j == Min(m.value, 200)
                 upward == UniformOf(m.rng) < env.params.prob_upward
             IN  /\ upward => cur = Max(100, (last * (100 + j)) \div 100)
                 /\ ~upward => cur = Max(100, (last * Max(1, 100 - j)) \div 100)
                 /\ Max(100, last \div 100) <= cur
                 /\ cur <= Max(100, 3 * last)
        ELSE cur = last

MonthWithSigma(s, income, t, sigma) ==
    LET last == income[t]
        m == NpLognormal(NpRandom(s).rng, env.params.jump_median_pct, sigma)
        j == Min(m.value, 200)
    IN  income[t + 1] =
            IF UniformOf(m.rng) < env.params.prob_upward
            THEN Max(100, (last * (100 + j)) \div 100)
            ELSE Max(100, (last * Max(1, 100 - j)) \div 100)

\* ln(2) / 1.35, the sigma of the fallback ratio 2, in thousandths.
FallbackSigma == (LnMilli(2000) * 100) \div 135

\* C22: the sigma the jump model uses lies in [0.1, 1.0] whatever the quartiles
\* of the parameters, and with jump_q25 <= 0 it is the sigma of the fallback
\* ratio 2, whatever jump_q75 is: the quotient jump_q75 / jump_q25 is formed
\* only for jump_q25 > 0.  Every jump of a returned trajectory has the size the
\* magnitude draw yields with such a sigma.
C22_SigmaGuarded ==
    [][pc = "idle" /\ kind' \in JumpCalls =>
          LET r0 == IF seed' # None THEN NpSeed(seed') ELSE rng
          IN  \E sigma \in 100..1000 :
                  /\ env.params.jump_q25 <= 0 => sigma = FallbackSigma
                  /\ \A t \in 1..(Len(result') - 1) :
                         UniformOf(StreamAt(r0, t)) < env.params.lambda =>
                             MonthWithSigma(StreamAt(r0, t), result', t, sigma)]_vars

\* A trajectory with a jump, from parameters whose lower quartile is negative.
C22_Witness ==
    /\ pc = "done" /\ kind \in JumpCalls
    /\ env.params.jump_q25 < 0
    /\ Len(result) = MaxMonths
    /\ result[2] # result[1]

\* first_negative_month of the current trial is the smallest processed month
\* whose balance is negative after income minus expenses, and None when no
\* processed month is.
FirstNegativeRecorded ==
    /\ went_negative <=> first_negative_month # None
    /\ first_negative_month # None =>
           /\ first_negative_month \in 1..Processed
           /\ BeforeInterest(first_negative_month) < 0
           /\ \A m \in 1..(first_negative_month - 1) :
                  BeforeInterest(m) >= 0 /\ monthly_balances[m + 1] >= 0
    /\ first_negative_month = None =>
           \A m \in 1..Processed :
               BeforeInterest(m) >= 0 /\ monthly_balances[m + 1] >= 0

\* C23: in simulate_financial_outcomes the first-negative month of a trial is
\* the smallest month of 1..n_months whose balance after adding income minus
\* expenses is negative, the recorded balances of the months before it are
\* not negative, it is absent while no month after month 0 was negative, and
\* once recorded it keeps its value to the end of the trial.
C23_FirstNegativeOnce ==
    [][kind' = "sfo" /\ pc' \in {"month", "trial_end"} =>
          /\ FirstNegativeRecorded'
          /\ pc \in {"month", "trial_end"} /\ first_negative_month # None =>
                 first_negative_month' = first_negative_month]_vars

\* A trial that went negative before the last month and is negative again in
\* a later month.
C23_Witness ==
    /\ kind = "sfo" /\ pc = "trial_end"
    /\ first_negative_month # None
    /\ \E m \in (first_negative_month + 1)..Processed : monthly_balances[m + 1] < 0

\* The changes between consecutive positive observations of all households of
\* the panel.
RECURSIVE AllChanges(_)
AllChanges(data) ==
    IF data = <<>> THEN <<>>
    ELSE Diff(Positive(Head(data))) \o AllChanges(Tail(data))

\* C24: in estimate_model_parameters, over any panel, the zero changes and the
\* jumps add up to all changes and the upward jumps are among the jumps;
\* lambda is 1 minus the fraction of zero changes and prob_upward the fraction
\* of the non-zero changes that are positive, both within [0, 1]; and
\* jump_q25 <= jump_median_pct <= jump_q75.
C24_JumpCounters ==
    pc = "done" /\ kind = "emp" =>
        LET pooled == JumpHouseholds(raw_data)
            changes == AllChanges(raw_data)
            zero == Cardinality({k \in 1..Len(changes) : changes[k] = 0})
            nonzero == Cardinality({k \in 1..Len(changes) : changes[k] # 0})
            positive == Cardinality({k \in 1..Len(changes) : changes[k] > 0})
        IN  /\ pooled.zero_changes_count + pooled.total_jumps
                   = pooled.total_changes_count
            /\ pooled.upward_jumps <= pooled.total_jumps
            /\ pooled.total_changes_count = Len(changes)
            /\ pooled.zero_changes_count = zero
            /\ Len(changes) > 0 =>
                   result.lambda = 100 - Quot(zero * 100, Len(changes))
            /\ nonzero > 0 => result.prob_upward = Quot(positive * 100, nonzero)
            /\ result.lambda \in 0..100
            /\ result.prob_upward \in 0..100
            /\ result.jump_q25 <= result.jump_median_pct
            /\ result.jump_median_pct <= result.jump_q75

\* A panel of two households with zero, upward and downward changes, whose
\* jump sizes differ.
C24_Witness ==
    /\ pc = "done" /\ kind = "emp"
    /\ Len(raw_data) = 2
    /\ result.lambda > 0 /\ result.lambda < 100
    /\ result.prob_upward > 0 /\ result.prob_upward < 100
    /\ result.jump_q25 < result.jump_median_pct
    /\ result.jump_median_pct < result.jump_q75

\* The two calls were made with the same seed, which is not zero, and the same
\* number of trials (the household is the same throughout a run).
SameSeededCalls ==
    /\ seed # None /\ seed # 0
    /\ prev.seed = seed
    /\ prev.n_simulations = n_simulations

\* The full-horizon paths the previous call, a simulate_financial_outcomes,
\* stored: all_paths as that call left it (the stop-on-negative functions have
\* no all_paths of their own).
PreviousPaths == all_paths

\* C25: for the same household and the same non-zero seed the stop-on-negative
\* engine and the full-horizon engine agree on the trials that go into debt:
\* calculate_bankruptcy_risk's debt_probability * 100 is
\* simulate_financial_outcomes' everNegativePct, a stop-on-negative path ends
\* negative exactly when the full-horizon path of the same trial has a
\* negative month, the two are equal in every month before the first negative
\* one, and a trial adds at most one to debt_trials, so debt_probability is
\* within [0, 1].
C25_EnginesAgree ==
    /\ pc = "done" /\ SameSeededCalls /\ kind = "cbr" /\ prev.kind = "sfo" =>
           result.debt_probability = prev.result.statistics.everNegativePct
    /\ pc = "done" /\ SameSeededCalls /\ kind = "sfo" /\ prev.kind = "cbr" =>
           prev.result.debt_probability = result.statistics.everNegativePct
    /\ pc = "trial_end" /\ SameSeededCalls /\ kind = "cbr" /\ prev.kind = "sfo" =>
           LET full == PreviousPaths[i + 1]
               months == Len(monthly_balances)
           IN  /\ balance < 0 <=> FirstNegative(full) # 0
               /\ balance < 0 => months = FirstNegative(full) + 1
               /\ balance >= 0 => months = Len(full)
               /\ \A m \in 1..months :
                      m < months \/ balance >= 0 => monthly_balances[m] = full[m]
    /\ kind = "cbr" =>
           /\ debt_trials <= IF pc \in {"month", "trial_end"} THEN i + 1 ELSE i
           /\ pc = "done" => result.debt_probability \in 0..10000

\* Both engines were run with seed 2 for the largest number of trials, and
\* some trial went into debt and some did not; the full-horizon engine
\* went on and charged interest.
C25_Witness ==
    /\ pc = "done" /\ SameSeededCalls
    /\ kind = "cbr" /\ prev.kind = "sfo"
    /\ seed = 2 /\ n_simulations = MaxSims
    /\ result.debt_probability > 0 /\ result.debt_probability < 10000
    /\ prev.result.statistics.meanInterestPaid > 0

\* C26: two calls of simulate_financial_outcomes for the same household and
\* number of trials, each with a seed other than 0, return the same
\* terminalValues, aggregateStats, statistics and riskMetrics even when the
\* seeds differ: every trial reseeds with its own index, and the seed decides
\* only which trials' paths are returned as samplePaths.
C26_SeedSelectsSamplesOnly ==
    /\ pc = "done"
    /\ kind = "sfo" /\ prev.kind = "sfo"
    /\ seed # None /\ seed # 0
    /\ prev.seed # None /\ prev.seed # 0
    /\ prev.n_simulations = n_simulations
    => /\ result.terminalValues = prev.result.terminalValues
       /\ result.aggregateStats = prev.result.aggregateStats
       /\ result.statistics = prev.result.statistics
       /\ result.riskMetrics = prev.result.riskMetrics
       /\ trajectories = prev.trajectories
       /\ \A k \in 1..Len(result.samplePaths) :
              \E t \in 1..n_simulations : result.samplePaths[k] = all_paths[t]

\* Two calls with different seeds, neither 0, whose trials differ from each
\* other and whose sample paths are those of different trials.
C26_Witness ==
    /\ pc = "done"
    /\ kind = "sfo" /\ prev.kind = "sfo"
    /\ seed # None /\ seed # 0
    /\ prev.seed # None /\ prev.seed # 0
    /\ prev.seed # seed
    /\ n_simulations = MaxSims /\ prev.n_simulations = MaxSims
    /\ result.terminalValues[1] # result.terminalValues[2]
    /\ result.samplePaths # prev.result.samplePaths

\* The initial income the generator state r yields.
InitialDraw(r) == NpLognormal(r, env.params.initial_income_median, 500).value

\* The generator state the trajectory of a trial seeded with its index leaves,
\* whatever the state before the seeding and whatever the initial income.
StreamLeftBy(trial) ==
    Simulation_simulate_trajectory(RngNext(NpSeed(trial)), 0, env.n_months,
                                   env.params, trial).rng

\* Whether the trials of a call of function k with seed sd reseed the
\* generator with their index.
Reseeds(k, sd) == k = "rs" \/ (k = "rra" /\ sd # None /\ sd # 0)

\* The initial incomes of the trials after trial 0 that two calls both ran are
\* the same.
SameLaterIncomes(a, b) ==
    \A t \in 2..Min(Len(a), Len(b)) : a[t][1] = b[t][1]

\* C27 as claimed: in run_simulations, and in run_risk_assessment without an
\* initial income, trial 0's initial income is the draw of the generator state
\* the caller left, and the initial income of every later trial is the same
\* in every run.
C27_CallerStateThenFixed ==
    [][/\ pc = "idle" /\ kind' = "rs" => trajectories'[1][1] = InitialDraw(rng)
       /\ pc = "idle" /\ kind' = "rra" => InitialDraw(rng') = InitialDraw(rng)
       /\ kind' \in {"rs", "rra"} /\ prev'.kind \in {"rs", "rra"} =>
              SameLaterIncomes(trajectories', prev'.trajectories)]_vars

\* C27 as amended: the initial income of a trial is drawn from the generator
\* as it stands before the trial, that is before the trial reseeds it, if it
\* does.  In run_simulations trial 0 draws from the state the caller left; in
\* run_risk_assessment from that state only when seed is None, and from the
\* stream of the seed otherwise.  When the trials reseed (run_simulations
\* always, run_risk_assessment with a seed other than None and 0) the initial
\* income of trial i >= 1 is the draw of the stream trial i - 1 left and is
\* the same in every such run.  Two run_risk_assessment calls with the same
\* seed, 0 included, draw the same initial incomes.
C27_DrawnBeforeReseeding ==
    [][/\ pc = "idle" /\ kind' = "rs" => trajectories'[1][1] = InitialDraw(rng)
       /\ pc = "idle" /\ kind' = "rra" =>
              rng' = IF seed' # None THEN NpSeed(seed') ELSE rng
       /\ pc = "loop" /\ kind = "rra" /\ ~given /\ i < n_simulations =>
              income_trajectory'[1] = InitialDraw(rng)
       /\ Reseeds(kind', seed') =>
              \A t \in 2..Len(trajectories') :
                  trajectories'[t][1] = InitialDraw(StreamLeftBy(t - 2))
       /\ Reseeds(kind', seed') /\ Reseeds(prev'.kind, prev'.seed) =>
              SameLaterIncomes(trajectories', prev'.trajectories)
       /\ kind' = "rra" /\ prev'.kind = "rra" /\ seed' # None /\ prev'.seed = seed' =>
              \A t \in 1..Min(Len(trajectories'), Len(prev'.trajectories)) :
                  trajectories'[t][1] = prev'.trajectories[t][1]]_vars

\* run_simulations and then run_risk_assessment with seed 2, each for the
\* largest number of trials: trial 1 starts from the same income in both,
\* trial 0 does not.
C27_Witness ==
    /\ pc = "done"
    /\ kind = "rra" /\ seed = 2 /\ prev.kind = "rs"
    /\ n_simulations = MaxSims /\ prev.n_simulations = MaxSims
    /\ trajectories[2][1] = prev.trajectories[2][1]
    /\ trajectories[1][1] # prev.trajectories[1][1]

\* C28: in the result of simulate_financial_outcomes
\* probabilityAboveCreditByMonth starts at 100 percent, never increases from
\* a month to the next, and ends at the share of the trials that did not
\* exhaust their credit, the complement of creditExhaustionPct;
\* probabilityPositiveByMonth is the share of the trials whose balance of
\* that month is not negative, whatever it was in the months before.
C28_AboveCreditFalls ==
    pc = "done" /\ kind = "sfo" =>
        LET above == result.riskMetrics.probabilityAboveCreditByMonth
            positive == result.riskMetrics.probabilityPositiveByMonth
            last == env.n_months + 1
            exhausted == CountTrue(credit_exhausted)
        IN  /\ above[1] = 10000
            /\ \A m \in 1..(last - 1) : above[m + 1] <= above[m]
            /\ above[last] = Pct(n_simulations - exhausted, n_simulations)
            /\ result.statistics.creditExhaustionPct = Pct(exhausted, n_simulations)
            /\ \A m \in 1..last :
                   positive[m] =
                       Pct(Cardinality({t \in 1..n_simulations :
                                           all_paths[t][m] >= 0}),
                           n_simulations)

\* A result in which the share of the trials within their credit falls, and
\* the share of the trials with a balance that is not negative falls and
\* rises again.
C28_Witness ==
    /\ pc = "done" /\ kind = "sfo"
    /\ result.riskMetrics.probabilityAboveCreditByMonth[env.n_months + 1] < 10000
    /\ \E m1, m2, m3 \in 1..(env.n_months + 1) :
           /\ m1 < m2 /\ m2 < m3
           /\ result.riskMetrics.probabilityPositiveByMonth[m2]
                  < result.riskMetrics.probabilityPositiveByMonth[m1]
           /\ result.riskMetrics.probabilityPositiveByMonth[m3]
                  > result.riskMetrics.probabilityPositiveByMonth[m2]
           /\ result.riskMetrics.probabilityAboveCreditByMonth[m3]
                  <= result.riskMetrics.probabilityAboveCreditByMonth[m2]

\* C29: for a household with available_credit >= 0, interest_rate >= 0 and
\* initial_fund >= 0, every trial of simulate_financial_outcomes that
\* exhausted its credit, paid interest or ended below zero went negative, a
\* trial went negative iff its minimum balance is below zero, and in the
\* result neither negativeTerminalPct nor creditExhaustionPct exceeds
\* everNegativePct.
C29_EverNegativeDominates ==
    /\ kind = "sfo"
    /\ available_credit >= 0 /\ interest_rate >= 0 /\ env.initial_fund >= 0
    => /\ \A t \in 1..Len(ever_negative) :
              /\ credit_exhausted[t] => ever_negative[t]
              /\ total_interest_paid_list[t] > 0 => ever_negative[t]
              /\ terminal_values[t] < 0 => ever_negative[t]
              /\ ever_negative[t] <=> min_balances[t] < 0
       /\ pc = "done" =>
              /\ result.statistics.negativeTerminalPct
                     <= result.statistics.everNegativePct
              /\ result.statistics.creditExhaustionPct
                     <= result.statistics.everNegativePct

\* A result in which some trial went negative, paid interest and recovered,
\* and some trial went negative without exhausting its credit.
C29_Witness ==
    /\ pc = "done" /\ kind = "sfo"
    /\ env.initial_fund >= 0
    /\ result.statistics.negativeTerminalPct < result.statistics.everNegativePct
    /\ result.statistics.creditExhaustionPct < result.statistics.everNegativePct
    /\ \E t \in 1..n_simulations :
           /\ ever_negative[t] /\ terminal_values[t] >= 0
           /\ total_interest_paid_list[t] > 0

\* The balance of month 1 of every trial, as claimed: the initial fund plus
\* the initial income minus the expenses, plus interest if that is negative.
FirstMonthBalance ==
    LET b == env.initial_fund + env.initial_income - env.monthly_expenses
    IN  b + ClaimedInterest(b)

\* All seven percentiles and the mean of the summary st are v (hundredths).
AllEqual(st, v) ==
    /\ st.mean = v /\ st.p5 = v /\ st.p10 = v /\ st.p25 = v
    /\ st.p50 = v /\ st.p75 = v /\ st.p90 = v /\ st.p95 = v

\* C30: in simulate_financial_outcomes the first simulated month is the same
\* in every trial, whatever the parameters: the balance of month 1 is the
\* initial fund plus the initial income minus the expenses (plus interest if
\* negative), so the mean and the seven percentiles of months 0 and 1
\* coincide, and with n_months = 1 all terminal values are that balance and
\* their standard deviation is 0.
C30_FirstMonthFixed ==
    pc = "done" /\ kind = "sfo" =>
        /\ \A t \in 1..n_simulations :
               /\ all_paths[t][1] = env.initial_fund
               /\ all_paths[t][2] = FirstMonthBalance
        /\ AllEqual(result.aggregateStats.stats[1], 100 * env.initial_fund)
        /\ AllEqual(result.aggregateStats.stats[2], 100 * FirstMonthBalance)
        /\ env.n_months = 1 =>
               /\ \A t \in 1..n_simulations :
                      result.terminalValues[t] = FirstMonthBalance
               /\ AllEqual(result.statistics.terminalStats, 100 * FirstMonthBalance)
               /\ result.statistics.std = 0

\* Several trials over one month with a jump probability of 1, ending the
\* month in debt with interest.
C30_Witness ==
    /\ pc = "done" /\ kind = "sfo"
    /\ env.n_months = 1 /\ n_simulations = MaxSims
    /\ env.params.lambda = 100
    /\ FirstMonthBalance < env.initial_fund + env.initial_income - env.monthly_expenses
    /\ result.statistics.std = 0

====
